---- MODULE Spec2Model ----
(***************************************************************************)
(* Verification model of the Ai-generative backend (Express handlers that  *)
(* drive the D-ID talk API and update lesson records in MongoDB).          *)
(*                                                                         *)
(* The repository holds several variants of the same server; a running     *)
(* process is one of them.  The variant is chosen in the initial state      *)
(* and never changes.                                                      *)
(*                                                                         *)
(* Part I  : POST /generate-and-upload  (submit a talk, poll to the end)   *)
(* Part II : PUT /api/updateSubtopicVideo (locate a record and attach URL) *)
(* Part III: POST /api/addSubtopic, POST /api/content/updateUnitAI and     *)
(*           PUT /save-full-lesson-adminstyle/:unitId (one store call)     *)
(* Part IV : GET /api/debug-subtopic/:id (locate a record, read only)      *)
(* Part V  : POST /save-full-data (insert or upsert a lesson)              *)
(***************************************************************************)
EXTENDS Integers, Sequences, FiniteSets, TLC

VARIABLES
    \* ---- Part I: POST /generate-and-upload ----
    gvariant,   \* which variant of the handler this process runs
    gpc,        \* where the handler is suspended
    greq,       \* req.body of the request being validated
    status,     \* let status
    videoUrl,   \* let videoUrl
    elapsed,    \* Date.now() - startTime
    retries,    \* let retries
    polls,      \* observer: status polls issued for the current request
    submits,    \* observer: job-creation calls issued for the current request
    doneAnswer, \* observer: the provider's answer to the last poll
    gresp,      \* the response sent for the current request
    \* ---- Part II: PUT /api/updateSubtopicVideo ----
    uvariant,   \* which variant of the handler this process runs
    store,      \* the database: collection name -> documents in store order
    now,        \* the clock read by new Date()
    ureq,       \* req.body of each request
    upc,        \* where each request's handler is suspended
    upos,       \* the call each handler awaits (a position of its plan)
    result,     \* let result
    updateLocation,     \* let updateLocation
    updatedCollection,  \* let updatedCollection
    uresp,      \* the response sent for each request
    lateUpdate, \* observer: an updateOne was issued after a match
    touched,    \* observer: the site written by the matching update
    storeFailed,\* observer: a store call of the request was rejected
    repeat,     \* observer: the previous call when this one repeats it
    \* ---- Part III: addSubtopic, updateUnitAI, save-full-lesson-adminstyle ----
    cvariant,   \* which variant of each handler this process runs
    creq,       \* the endpoint called and its req.body / req.params
    cpc,        \* where the handler is suspended
    ccall,      \* the store call the handler awaits
    cresp,      \* the response sent for the current request
    cres,       \* observer: matchedCount / modifiedCount the store reported
    cbefore,    \* observer: the database when the request arrived
    fresh,      \* how many identifiers new ObjectId() has generated
    conns,      \* connections opened by request handlers and not closed
    \* ---- Part IV: GET /api/debug-subtopic/:id ----
    lreq,       \* req.params.id and req.query.subjectName
    lpc,        \* where the handler is suspended
    lpos,       \* the call the handler awaits (a position of its plan)
    lresp,      \* the response sent for the current request
    ltried,     \* observer: the searches of the request that have settled
    lfailed,    \* observer: a store call of the request was rejected
    \* ---- Part V: POST /save-full-data ----
    svariant,   \* which variant of the handler this process runs
    db,         \* let db / let collection: set when the startup connection completes
    lessons,    \* the collections the handler writes: name -> documents
    sreq,       \* req.body of the request
    spc,        \* where the handler is suspended
    scall,      \* the store call the handler awaits
    sresp,      \* the response sent for the current request
    generated   \* how many identifiers new ObjectId() has generated

gvars == <<gvariant, gpc, greq, status, videoUrl, elapsed, retries, polls,
           submits, doneAnswer, gresp>>

uvars == <<uvariant, store, now, ureq, upc, upos, result, updateLocation,
           updatedCollection, uresp, lateUpdate, touched, storeFailed, repeat>>

\* the update handler's own state (uvars without the database and the clock)
uhandler == <<uvariant, ureq, upc, upos, result, updateLocation,
              updatedCollection, uresp, lateUpdate, touched, storeFailed, repeat>>

cvars == <<cvariant, creq, cpc, ccall, cresp, cres, cbefore, fresh, conns>>

lvars == <<lreq, lpc, lpos, lresp, ltried, lfailed>>

svars == <<svariant, db, lessons, sreq, spc, scall, sresp, generated>>

vars == <<gvars, uvars, cvars, lvars, svars>>

(***************************************************************************)
(* Bounds of the model                                                     *)
(***************************************************************************)
\* longest description a request carries
MaxDescLen == 3
\* the observer counter `polls` saturates here (the loops without a budget
\* never stop counting)
PollCap == 250
\* documents per collection, elements per `units` array
MaxDocs == 1
MaxUnits == 1
\* the clock (new Date()) runs from 1 to MaxClock
MaxClock == 2
\* distinct video URLs the callers of the update endpoint send
MaxUrls == 1
\* identifiers new ObjectId() can generate in one run (Part III)
MaxFresh == 4
\* elements of a `units` array in the initial database of Part III
MaxLessonUnits == 1
\* connections the store accepts from request handlers (its pool limit)
MaxConns == 2
\* identifiers new ObjectId() can generate in one run (Part V)
MaxSaved == 2

(***************************************************************************)
(* Values                                                                  *)
(***************************************************************************)
Undefined == "undefined"
UrlSeq == <<"https://cdn/video1.mp4", "https://cdn/video2.mp4", "https://cdn/video3.mp4">>
Urls == {UrlSeq[1], UrlSeq[2]}
\* the stored form of a value: undefined is written as null
Null == "null"
ToStored(v) == IF v = Undefined THEN Null ELSE v
\* the empty array []
EmptyList == "[]"
\* JavaScript truthiness of a string-or-undefined value
Truthy(v) == v # Undefined /\ v # ""
\* a || b
OrElse(a, b) == IF Truthy(a) THEN a ELSE b

Min(a, b) == IF a < b THEN a ELSE b

(***************************************************************************)
(* Part I.  POST /generate-and-upload                                      *)
(***************************************************************************)
\* The variants of the handler found in the repository.
GenVariants == {"timed", "retry60", "retry30", "unbounded", "failfast"}

\* const maxWaitTime = 10 * 60 * 1000
maxWaitTime == 10 * 60 * 1000
\* setTimeout(r, 3000)
PollSleep == 3000
\* while (... && retries < 60) / while (... && retries < 30)
RetryLimit(v) == IF v = "retry60" THEN 60 ELSE 30
\* how long one status poll may take (below the 30000 ms axios timeout)
PollLatencies == {0, 27000}

\* status tokens the provider may answer with: in progress, a token the
\* handler does not know, the two terminal ones, and no token at all
StatusTokens == {"started", "rejected", "done", "failed", Undefined}
\* poll.data of one status poll; the result URLs come with `done` only
PollAnswers ==
    {a \in [status : StatusTokens, result_url : Urls \cup {Undefined},
            result_url_signed : Urls \cup {Undefined}] :
        a.status # "done" =>
            a.result_url = Undefined /\ a.result_url_signed = Undefined}
NoAnswer ==
    [status |-> "notDone", result_url |-> Undefined, result_url_signed |-> Undefined]

\* description.trim()
Chars == {" ", "a"}
RECURSIVE TrimLeft(_)
TrimLeft(s) ==
    IF s # <<>> /\ Head(s) = " " THEN TrimLeft(Tail(s)) ELSE s
RECURSIVE TrimRight(_)
TrimRight(s) ==
    IF s # <<>> /\ s[Len(s)] = " " THEN TrimRight(SubSeq(s, 1, Len(s) - 1)) ELSE s
Trim(s) == TrimRight(TrimLeft(s))

Descriptions == UNION {[1..n -> Chars] : n \in 0..MaxDescLen}
\* req.body: subtopic (or subtopicName) given?, description given?, its text
GenRequests ==
    [subtopic : BOOLEAN, hasDescription : BOOLEAN, description : Descriptions]
NoGenRequest == [subtopic |-> FALSE, hasDescription |-> FALSE, description |-> <<>>]

\* !description  (undefined or the empty string)
NoDescription(b) == ~b.hasDescription \/ b.description = <<>>

\* The handler's input check; TRUE when the request is refused with 400.
GenRejects(v, b) ==
    CASE v \in {"timed", "failfast"} ->
            ~b.subtopic \/ NoDescription(b) \/ Len(Trim(b.description)) < 3
      [] v = "retry60" -> NoDescription(b) \/ ~b.subtopic
      [] OTHER -> FALSE

\* the 400 body of each variant
GenRejectMessage(v) ==
    IF v = "retry60" THEN "Missing subtopicName or description"
    ELSE "Description must be at least 3 characters for AI video generation."

NoGenResponse == [code |-> 0, error |-> "", url |-> Undefined]
GenOk(url) == [code |-> 200, error |-> "", url |-> url]
GenError(code, msg) == [code |-> code, error |-> msg, url |-> Undefined]

\* the message of the 500 sent when the loop ends without `done`
TimeoutMessage(v) ==
    IF v = "timed" THEN "Video generation timeout" ELSE "Video generation timed out"
\* the 500 sent by the catch block for an error thrown by the handler itself
CaughtMessage(v, msg) ==
    IF v \in {"timed", "failfast"} THEN msg ELSE "Video generation failed"
\* the 500 sent when the loop is left without `done`: thrown and caught in
\* the timed variant, sent directly by the retry variants
TimeoutError(v) ==
    IF v = "timed" THEN CaughtMessage(v, TimeoutMessage(v)) ELSE TimeoutMessage(v)
\* the 500 sent by the catch block for a failed provider call
ProviderFailure(v) ==
    IF v \in {"timed", "failfast"} THEN "provider error message"
    ELSE "Video generation failed"

\* mutant of LoopContinues: the retry counter is compared with <=
LoopContinues_OneMore(v, st, el, rt) ==
    /\ st # "done"
    /\ CASE v = "timed" -> el < maxWaitTime
         [] v \in {"retry60", "retry30"} -> rt <= RetryLimit(v)
         [] OTHER -> TRUE

\* the loop condition: while (status !== "done" && <budget left>)
LoopContinues(v, st, el, rt) ==
    /\ st # "done"
    /\ CASE v = "timed" -> el < maxWaitTime
         [] v \in {"retry60", "retry30"} -> rt < RetryLimit(v)
         [] OTHER -> TRUE

\* mutant of ResultUrl: the signed URL is preferred to the result URL
ResultUrl_SignedFirst(v, ans) ==
    OrElse(ans.result_url_signed, ans.result_url)

\* videoUrl = poll.data.result_url (|| poll.data.result_url_signed)
ResultUrl(v, ans) ==
    IF v = "retry60" THEN OrElse(ans.result_url, ans.result_url_signed)
    ELSE ans.result_url

\* A request arrives; the handler checks it and either answers 400 or sends
\* the job-creation call (await axios.post).
GenReceive ==
    /\ gpc \in {"idle", "responded"}
    /\ \E b \in GenRequests :
        /\ b.hasDescription \/ b.description = <<>>
        /\ greq' = b
        /\ IF GenRejects(gvariant, b)
           THEN /\ gpc' = "responded"
                /\ gresp' = GenError(400, GenRejectMessage(gvariant))
                /\ submits' = 0
           ELSE /\ gpc' = "submitting"
                /\ gresp' = NoGenResponse
                /\ submits' = 1
    /\ status' = "notDone"
    /\ videoUrl' = ""
    /\ elapsed' = 0
    /\ retries' = 0
    /\ polls' = 0
    /\ doneAnswer' = NoAnswer
    /\ UNCHANGED gvariant
    /\ UNCHANGED <<uvars, cvars, lvars, svars>>

\* mutant of AfterLoopTest: the job is submitted again when the budget is spent
AfterLoopTest_Resubmits(st, el, rt, url) ==
    IF LoopContinues(gvariant, st, el, rt)
    THEN /\ gpc' = "polling"
         /\ polls' = Min(polls + 1, PollCap)
         /\ gresp' = gresp
    ELSE IF st # "done"
    THEN /\ gpc' = "submitting"
         /\ polls' = polls
         /\ gresp' = gresp
    ELSE /\ gpc' = "responded"
         /\ polls' = polls
         /\ gresp' = GenOk(url)

\* The code that runs once the loop condition has been evaluated with the
\* handler not suspended: either the next poll is issued or the loop is left.
AfterLoopTest(st, el, rt, url) ==
    IF LoopContinues(gvariant, st, el, rt)
    THEN /\ gpc' = "polling"
         /\ polls' = Min(polls + 1, PollCap)
         /\ gresp' = gresp
    ELSE /\ gpc' = "responded"
         /\ polls' = polls
         /\ gresp' = IF st # "done"
                     THEN GenError(500, TimeoutError(gvariant))
                     ELSE GenOk(url)

\* axios.post resolves with the talk id: the locals are initialised and the
\* loop is entered.  The request body is not read again.
GenSubmit ==
    /\ gpc = "submitting"
    /\ greq' = NoGenRequest
    /\ status' = "notDone"
    /\ videoUrl' = ""
    /\ elapsed' = 0
    /\ retries' = 0
    /\ AfterLoopTest("notDone", 0, 0, "")
    /\ UNCHANGED <<gvariant, submits, doneAnswer>>
    /\ UNCHANGED <<uvars, cvars, lvars, svars>>

\* axios.post rejects: the catch block answers 500.
GenSubmitFails ==
    /\ gpc = "submitting"
    /\ gpc' = "responded"
    /\ greq' = NoGenRequest
    /\ gresp' = GenError(500, ProviderFailure(gvariant))
    /\ UNCHANGED <<gvariant, status, videoUrl, elapsed, retries, polls,
                   submits, doneAnswer>>
    /\ UNCHANGED <<uvars, cvars, lvars, svars>>

\* mutant of PollThrows: every token but `started` and `done` is an error
PollThrows_UnlessStarted(v, st) ==
    st \notin {"started", "done"} /\ v \in {"timed", "failfast"}

\* else if (status === "failed") throw new Error(...), in the variants
\* that have this branch
PollThrows(v, st) ==
    st = "failed" /\ v \in {"timed", "failfast"}

\* axios.get resolves with poll.data.
GenPollReturns ==
    /\ gpc = "polling"
    /\ \E ans \in PollAnswers, lat \in PollLatencies :
        LET el == IF gvariant = "timed" THEN elapsed + lat ELSE elapsed
            url == IF ans.status = "done" THEN ResultUrl(gvariant, ans) ELSE videoUrl
        IN  /\ status' = ans.status
            /\ doneAnswer' = ans
            /\ elapsed' = el
            /\ videoUrl' = url
            /\ CASE ans.status = "done" ->
                      \* break, or the loop condition fails: the URL is sent
                      /\ gpc' = "responded"
                      /\ gresp' = GenOk(url)
                 [] PollThrows(gvariant, ans.status) ->
                      \* throw new Error("D-ID video generation failed")
                      /\ gpc' = "responded"
                      /\ gresp' = GenError(500, "D-ID video generation failed")
                 [] OTHER ->
                      \* await new Promise(r => setTimeout(r, ...))
                      /\ gpc' = "sleeping"
                      /\ gresp' = gresp
    /\ UNCHANGED <<gvariant, greq, retries, polls, submits>>
    /\ UNCHANGED <<uvars, cvars, lvars, svars>>

\* mutant of GenPollFails: a failed poll is retried after the sleep
GenPollFails_Retries ==
    /\ gpc = "polling"
    /\ gpc' = "sleeping"
    /\ UNCHANGED <<gvariant, greq, status, videoUrl, elapsed, retries, polls,
                   submits, doneAnswer, gresp>>
    /\ UNCHANGED <<uvars, cvars, lvars, svars>>

\* axios.get rejects (network error, 5xx, timeout): the catch block answers 500.
GenPollFails ==
    /\ gpc = "polling"
    /\ gpc' = "responded"
    /\ gresp' = GenError(500, ProviderFailure(gvariant))
    /\ UNCHANGED <<gvariant, greq, status, videoUrl, elapsed, retries, polls,
                   submits, doneAnswer>>
    /\ UNCHANGED <<uvars, cvars, lvars, svars>>

\* The timer fires: retries++ where the variant counts, then the loop
\* condition is evaluated again.
GenSleepEnds ==
    /\ gpc = "sleeping"
    /\ LET el == IF gvariant = "timed" THEN elapsed + PollSleep ELSE elapsed
           rt == IF gvariant \in {"retry60", "retry30"} THEN retries + 1 ELSE retries
       IN  /\ elapsed' = el
           /\ retries' = rt
           /\ AfterLoopTest(status, el, rt, videoUrl)
    /\ UNCHANGED <<gvariant, greq, status, videoUrl, submits, doneAnswer>>
    /\ UNCHANGED <<uvars, cvars, lvars, svars>>

(***************************************************************************)
(* Part II.  PUT /api/updateSubtopicVideo                                  *)
(***************************************************************************)
\* The variants of the handler found in the repository:
\*   springboot : Spring Boot call, then the hinted collection, then all
\*   allcolls   : every collection of the database
\*   content    : the single collection "Content"
\*   hinted     : the hinted collection, else every collection
UpdVariants == {"springboot", "allcolls", "content", "hinted"}

\* dbConn.listCollections(): the collections of the database, in the order
\* the store lists them
CollNames == <<"Content", "Physics">>
Colls == {CollNames[i] : i \in 1..Len(CollNames)}

\* identifiers a caller may send; the first one is accepted by new ObjectId()
HexId == "5f0000000000000000000001"
PlainId == "sub-42"
OtherHexId == "5f0000000000000000000002"
ReqIds == {HexId, PlainId}
\* the identifiers new ObjectId() generates, in the order it generates them
FreshSeq ==
    <<"6a0000000000000000000001", "6a0000000000000000000002",
      "6a0000000000000000000003", "6a0000000000000000000004",
      "6a0000000000000000000005", "6a0000000000000000000006">>
FreshId(n) == FreshSeq[n]
FreshIds == {FreshSeq[n] : n \in 1..Len(FreshSeq)}
\* new ObjectId(s) throws unless s is a 24 digit hex string
ValidObjectId(s) == s \in {HexId, OtherHexId} \cup FreshIds

\* a stored identity: a native ObjectId, a string, or no such field
Oid(s) == [t |-> "oid", v |-> s]
Str(s) == [t |-> "str", v |-> s]
NoField == [t |-> "none", v |-> ""]

\* an element of a document's `units` array
Unit(id, uid) ==
    [id |-> id, _id |-> uid, unitName |-> "unit", aiVideoUrl |-> "", updatedAt |-> 0,
     videoUrl |-> Undefined, aiTestData |-> Undefined, explanation |-> Undefined]
\* a document of a subject collection
Doc(did, units) ==
    [_id |-> did, unitName |-> "doc", aiVideoUrl |-> "", updatedAt |-> 0,
     units |-> units]

\* the shapes under which producers have stored records
TopIds == {Oid(HexId), Str(HexId), Oid(OtherHexId)}
UnitShapes ==
    {Unit(Str(HexId), NoField), Unit(NoField, Str(HexId)),
     Unit(NoField, Oid(HexId)), Unit(Str(PlainId), NoField)}
UnitSeqs == UNION {[1..n -> UnitShapes] : n \in 0..MaxUnits}
\* a document that holds units is a parent created under a native id
DocShapes ==
    {Doc(d, us) : d \in TopIds, us \in UnitSeqs} \
        {Doc(Str(HexId), us) : us \in UnitSeqs \ {<<>>}}
DocSeqs ==
    {ds \in UNION {[1..n -> DocShapes] : n \in 0..MaxDocs} :
        \A i, j \in 1..Len(ds) : ds[i]._id = ds[j]._id => i = j}
Stores == [Colls -> DocSeqs]

(* ---- the store's updateOne ------------------------------------------- *)
\* smallest element of a non-empty set of numbers, 0 for the empty set
First(S) == IF S = {} THEN 0 ELSE CHOOSE i \in S : \A j \in S : i <= j

\* the filter value the handler builds for a step: the string itself or
\* new ObjectId(string)
FilterValue(step, id) == IF step.oid THEN Oid(id) ELSE Str(id)

\* index of the first element of doc.units whose identity field equals val
UnitIndex(doc, field, val) ==
    First({i \in 1..Len(doc.units) : doc.units[i][field] = val})

\* does the document satisfy the step's filter?
DocMatches(doc, step, id) ==
    IF step.kind = "main"
    THEN doc._id = FilterValue(step, id)
    ELSE UnitIndex(doc, step.field, FilterValue(step, id)) # 0

\* mutant of ApplySet: a video URL stored already is kept (first write wins)
ApplySet_KeepsFirstUrl(doc, step, id, url, t) ==
    IF step.kind = "main"
    THEN [doc EXCEPT !.aiVideoUrl = IF @ = "" THEN url ELSE @, !.updatedAt = t]
    ELSE LET k == UnitIndex(doc, step.field, FilterValue(step, id))
         IN  IF step.stampsParent
             THEN [doc EXCEPT !.units[k].aiVideoUrl = IF @ = "" THEN url ELSE @,
                              !.updatedAt = t]
             ELSE [doc EXCEPT !.units[k].aiVideoUrl = IF @ = "" THEN url ELSE @,
                              !.units[k].updatedAt = t]

\* mutant of ApplySet: the updated-timestamp is not written
ApplySet_NoStamp(doc, step, id, url, t) ==
    IF step.kind = "main"
    THEN [doc EXCEPT !.aiVideoUrl = url]
    ELSE LET k == UnitIndex(doc, step.field, FilterValue(step, id))
         IN  [doc EXCEPT !.units[k].aiVideoUrl = url]

\* the $set of a step applied to a matching document at time t
ApplySet(doc, step, id, url, t) ==
    IF step.kind = "main"
    THEN [doc EXCEPT !.aiVideoUrl = url, !.updatedAt = t]
    ELSE LET k == UnitIndex(doc, step.field, FilterValue(step, id))
         IN  IF step.stampsParent
             THEN [doc EXCEPT !.units[k].aiVideoUrl = url, !.updatedAt = t]
             ELSE [doc EXCEPT !.units[k].aiVideoUrl = url, !.units[k].updatedAt = t]

\* mutant of UpdateOne: updateMany, every matching document is updated
UpdateOne_Many(docs, step, id, url, t) ==
    LET d == First({i \in 1..Len(docs) : DocMatches(docs[i], step, id)})
    IN  IF d = 0
        THEN [docs |-> docs, matchedCount |-> 0, modifiedCount |-> 0, doc |-> 0, unit |-> 0]
        ELSE [docs |-> [i \in 1..Len(docs) |->
                            IF DocMatches(docs[i], step, id)
                            THEN ApplySet(docs[i], step, id, url, t) ELSE docs[i]],
              matchedCount |-> 1,
              modifiedCount |-> 1,
              doc |-> d,
              unit |-> IF step.kind = "main" THEN 0
                       ELSE UnitIndex(docs[d], step.field, FilterValue(step, id))]

\* collection.updateOne(filter, {$set: ...}): the first matching document is
\* updated; modifiedCount counts the documents whose content changed.
UpdateOne(docs, step, id, url, t) ==
    LET d == First({i \in 1..Len(docs) : DocMatches(docs[i], step, id)})
    IN  IF d = 0
        THEN [docs |-> docs, matchedCount |-> 0, modifiedCount |-> 0, doc |-> 0, unit |-> 0]
        ELSE LET new == ApplySet(docs[d], step, id, url, t)
             IN  [docs |-> [docs EXCEPT ![d] = new],
                  matchedCount |-> 1,
                  modifiedCount |-> IF new = docs[d] THEN 0 ELSE 1,
                  doc |-> d,
                  unit |-> IF step.kind = "main" THEN 0
                           ELSE UnitIndex(docs[d], step.field, FilterValue(step, id))]

(* ---- the ordered strategy search of each variant ---------------------- *)
\* { "units.id": subtopicId } with $set on units.$.aiVideoUrl, units.$.updatedAt
NestedId(c) ==
    [kind |-> "nested", coll |-> c, field |-> "id", oid |-> FALSE, inTry |-> FALSE,
     stampsParent |-> FALSE, location |-> "nested_unit"]
\* { _id: new ObjectId(subtopicId) } inside try/catch
MainOid(c) ==
    [kind |-> "main", coll |-> c, field |-> "_id", oid |-> TRUE, inTry |-> TRUE,
     stampsParent |-> FALSE, location |-> "main_document"]
\* { "units._id": subtopicId } with $set on units.$.aiVideoUrl and updatedAt
NestedUidString(c) ==
    [kind |-> "nested", coll |-> c, field |-> "_id", oid |-> FALSE, inTry |-> FALSE,
     stampsParent |-> TRUE, location |-> "nested_unit_string"]
\* { "units._id": new ObjectId(subtopicId) } inside try/catch
NestedUidOid(c) ==
    [kind |-> "nested", coll |-> c, field |-> "_id", oid |-> TRUE, inTry |-> TRUE,
     stampsParent |-> TRUE, location |-> "nested_unit_objectid"]
\* await axios.put(SPRING_BOOT_URL + "/api/updateSubtopicVideo") inside try/catch
SpringBootStep ==
    [kind |-> "springboot", coll |-> "", field |-> "", oid |-> FALSE, inTry |-> TRUE,
     stampsParent |-> FALSE, location |-> "spring_boot_api"]
\* await dbConn.listCollections().toArray()
ListStep ==
    [kind |-> "list", coll |-> "", field |-> "", oid |-> FALSE, inTry |-> FALSE,
     stampsParent |-> FALSE, location |-> ""]
\* await collection.find({}).limit(5).toArray() of the not-found branch
SampleStep ==
    [kind |-> "sample", coll |-> "Content", field |-> "", oid |-> FALSE, inTry |-> FALSE,
     stampsParent |-> FALSE, location |-> ""]

\* the two strategies tried in one collection: nested unit, then main document
InCollection(c) == <<NestedId(c), MainOid(c)>>
RECURSIVE InCollections(_)
InCollections(cs) ==
    IF cs = <<>> THEN <<>> ELSE InCollection(Head(cs)) \o InCollections(Tail(cs))

NoHint == "undefined"
\* searchCollections of the hinted variant: the hint alone when there is one
SearchCollections(hint) == IF hint # NoHint THEN <<hint>> ELSE CollNames

\* mutant of Plan: the listed collections are searched last to first
Plan_LastListedFirst(v, hint) ==
    LET listed == [i \in 1..Len(CollNames) |-> CollNames[Len(CollNames) + 1 - i]]
    IN  CASE v = "springboot" ->
                <<SpringBootStep>>
                \o (IF hint # NoHint THEN InCollection(hint) ELSE <<>>)
                \o <<ListStep>> \o InCollections(listed)
          [] v = "allcolls" -> <<ListStep>> \o InCollections(listed)
          [] v = "content" ->
                <<MainOid("Content"), NestedUidString("Content"),
                  NestedUidOid("Content"), SampleStep>>
          [] OTHER -> InCollections(SearchCollections(hint))

\* The store and provider calls the handler awaits, in program order.
Plan(v, hint) ==
    CASE v = "springboot" ->
            <<SpringBootStep>>
            \o (IF hint # NoHint THEN InCollection(hint) ELSE <<>>)
            \o <<ListStep>> \o InCollections(CollNames)
      [] v = "allcolls" -> <<ListStep>> \o InCollections(CollNames)
      [] v = "content" ->
            <<MainOid("Content"), NestedUidString("Content"),
              NestedUidOid("Content"), SampleStep>>
      [] OTHER -> InCollections(SearchCollections(hint))

\* let result: the last updateOne result assigned, undefined before
NoResult == [matchedCount |-> -1, modifiedCount |-> 0]
\* mutant of Matched: an update counts as a match only when it changed
\* the document
Matched_NeedsChange(res) == res.modifiedCount > 0
\* result.matchedCount > 0
Matched(res) == res.matchedCount > 0

\* mutant of Skipped: an update by native id is issued whatever the
\* identifier looks like
Skipped_OnlyAfterMatch(step, id, res) ==
    Matched(res)

\* mutant of Skipped: the search goes on after a match
Skipped_IgnoresMatch(step, id, res) ==
    step.oid /\ ~ValidObjectId(id)

\* Is the step passed over without being awaited?  An update is passed over
\* when new ObjectId() throws inside its try block, and nothing more is
\* awaited once a result has matched (return, break, or the guards
\* `!result || result.matchedCount === 0`).
Skipped(step, id, res) ==
    \/ step.oid /\ ~ValidObjectId(id)
    \/ Matched(res)

\* the position of the next step the handler awaits after position p
\* (Len + 1 when it runs to its response)
RECURSIVE NextAwait(_, _, _, _)
NextAwait(plan, p, id, res) ==
    IF p > Len(plan) THEN p
    ELSE IF Skipped(plan[p], id, res) THEN NextAwait(plan, p + 1, id, res)
    ELSE p

(* ---- requests and responses ------------------------------------------- *)
\* the requests in flight; the sequential specification uses the first only
Reqs == {1, 2}
Sequential == {1}

\* subjectName is read by the springboot and hinted variants only
Hints(v) == IF v \in {"springboot", "hinted"} THEN {NoHint, "Physics"} ELSE {NoHint}
\* req.body
VideoUrls == {UrlSeq[i] : i \in 1..Min(MaxUrls, Len(UrlSeq))}
UpdRequests(v) ==
    {b \in [subtopicId : ReqIds \cup {Undefined},
            aiVideoUrl : VideoUrls \cup {Undefined}, subjectName : Hints(v)] :
        \* a request refused for a missing field is drawn once, without a hint
        /\ (b.subtopicId = Undefined \/ b.aiVideoUrl = Undefined) =>
                b.subjectName = NoHint
        /\ b.subtopicId = Undefined => b.aiVideoUrl \in {Undefined, UrlSeq[1]}
        /\ b.aiVideoUrl = Undefined => b.subtopicId \in {Undefined, HexId}}
NoUpdRequest ==
    [subtopicId |-> Undefined, aiVideoUrl |-> Undefined, subjectName |-> NoHint]

\* a response: the status code and the fields of the JSON body that matter
NoUpdResponse ==
    [code |-> 0, updated |-> 0, location |-> "", collection |-> Undefined,
     subtopicId |-> Undefined, hasSearched |-> FALSE, collectionsSearched |-> <<>>]
\* res.status(400).json({ error: "Missing subtopicId or aiVideoUrl" })
UpdBadRequest == [NoUpdResponse EXCEPT !.code = 400]
\* res.status(500).json({ error: "Failed to update subtopic: " + err.message })
UpdFailure == [NoUpdResponse EXCEPT !.code = 500]
\* mutant of UpdOk: an update that changed nothing is answered as a failure
UpdOk_RequiresChange(v, res, loc, coll) ==
    IF res.modifiedCount = 0
    THEN [NoUpdResponse EXCEPT !.code = 500]
    ELSE [NoUpdResponse EXCEPT !.code = 200, !.updated = res.modifiedCount,
                               !.location = loc,
                               !.collection = IF v = "content" THEN Undefined ELSE coll]

\* res.json({ status: "ok", updated, location, collection })
UpdOk(v, res, loc, coll) ==
    [NoUpdResponse EXCEPT !.code = 200, !.updated = res.modifiedCount,
                          !.location = loc,
                          !.collection = IF v = "content" THEN Undefined ELSE coll]
\* the 404 body of each variant
UpdNotFound(v, b) ==
    CASE v = "allcolls" ->
            [NoUpdResponse EXCEPT !.code = 404, !.subtopicId = b.subtopicId,
                                  !.hasSearched = TRUE,
                                  !.collectionsSearched = CollNames]
      [] v = "hinted" ->
            [NoUpdResponse EXCEPT !.code = 404, !.subtopicId = b.subtopicId,
                                  !.hasSearched = TRUE,
                                  !.collectionsSearched = SearchCollections(b.subjectName)]
      [] OTHER ->
            [NoUpdResponse EXCEPT !.code = 404, !.subtopicId = b.subtopicId]
\* the response after the search: if (!result || result.matchedCount === 0)
FinalResponse(v, b, res, loc, coll) ==
    IF ~Matched(res) THEN UpdNotFound(v, b) ELSE UpdOk(v, res, loc, coll)

\* dbConn.listCollections().then(...): the cursor has no `then`, so the
\* hinted variant throws a TypeError when no subjectName is given
ListThrows(v, b) == v = "hinted" /\ b.subjectName = NoHint

\* observer: where the matching update of a request wrote, and when
NoSite == [coll |-> "", doc |-> 0, unit |-> 0, t |-> 0]
\* observer: the site written by the previous call, when the current call
\* repeats its arguments
NoRepeat == [is |-> FALSE, site |-> NoSite]

\* The code that runs after position p has settled, up to the next await or
\* to the response.
Continue(r, p, res, loc, coll) ==
    LET plan == Plan(uvariant, ureq[r].subjectName)
        n == NextAwait(plan, p + 1, ureq[r].subtopicId, res)
    IN  IF n <= Len(plan)
        THEN /\ upos' = [upos EXCEPT ![r] = n]
             /\ upc' = [upc EXCEPT ![r] = "awaiting"]
             /\ uresp' = uresp
             /\ lateUpdate' =
                    [lateUpdate EXCEPT
                        ![r] = @ \/ (Matched(res) /\ plan[n].kind \in {"nested", "main"})]
        ELSE /\ upos' = [upos EXCEPT ![r] = n]
             /\ upc' = [upc EXCEPT ![r] = "responded"]
             /\ uresp' = [uresp EXCEPT
                    ![r] = FinalResponse(uvariant, ureq[r], res, loc, coll)]
             /\ lateUpdate' = lateUpdate

\* A request with one of the given bodies arrives: the input check, then the
\* first awaited call.
UpdArrives(r, bodies) ==
    /\ upc[r] \in {"idle", "responded"}
    /\ \E b \in bodies :
        /\ ureq' = [ureq EXCEPT ![r] = b]
        /\ repeat' = [repeat EXCEPT ![r] =
              IF upc[r] = "responded" /\ b = ureq[r] /\ touched[r] # NoSite
              THEN [is |-> TRUE, site |-> touched[r]]
              ELSE NoRepeat]
        /\ IF ~Truthy(b.subtopicId) \/ ~Truthy(b.aiVideoUrl)
           THEN /\ upc' = [upc EXCEPT ![r] = "responded"]
                /\ uresp' = [uresp EXCEPT ![r] = UpdBadRequest]
                /\ upos' = [upos EXCEPT ![r] = 0]
           ELSE IF ListThrows(uvariant, b)
           THEN /\ upc' = [upc EXCEPT ![r] = "responded"]
                /\ uresp' = [uresp EXCEPT ![r] = UpdFailure]
                /\ upos' = [upos EXCEPT ![r] = 0]
           ELSE /\ upc' = [upc EXCEPT ![r] = "awaiting"]
                /\ uresp' = [uresp EXCEPT ![r] = NoUpdResponse]
                /\ upos' = [upos EXCEPT ![r] =
                      NextAwait(Plan(uvariant, b.subjectName), 1, b.subtopicId, NoResult)]
    /\ result' = [result EXCEPT ![r] = NoResult]
    /\ updateLocation' = [updateLocation EXCEPT ![r] = "unknown"]
    /\ updatedCollection' = [updatedCollection EXCEPT ![r] = "unknown"]
    /\ lateUpdate' = [lateUpdate EXCEPT ![r] = FALSE]
    /\ touched' = [touched EXCEPT ![r] = NoSite]
    /\ storeFailed' = [storeFailed EXCEPT ![r] = FALSE]
    /\ UNCHANGED <<uvariant, store, now>>
    /\ UNCHANGED <<gvars, cvars, lvars, svars>>

\* A request arrives, one after the other.
UpdReceive(r) == UpdArrives(r, UpdRequests(uvariant))

\* Two callers attach different video URLs to the same identifier, with the
\* same hint: caller r sends the r-th URL, once.
RacingRequests(r, other) ==
    {b \in [subtopicId : ReqIds, aiVideoUrl : {UrlSeq[r]}, subjectName : Hints(uvariant)] :
        other # NoUpdRequest =>
            /\ b.subtopicId = other.subtopicId
            /\ b.subjectName = other.subjectName}
UpdRaceReceive(r) ==
    /\ upc[r] = "idle"
    /\ \E o \in Reqs \ {r} : UpdArrives(r, RacingRequests(r, ureq[o]))

\* the step request r is waiting for
Awaited(r) == Plan(uvariant, ureq[r].subjectName)[upos[r]]
Awaiting(r, kinds) == upc[r] = "awaiting" /\ Awaited(r).kind \in kinds

\* springBootResponse.data: the fields the handler reads; `updated` is a
\* count, and 0 is falsy like a field that is missing
SpringAnswers == [updated : {0, 1}, status : {Undefined, "ok", "error"}]

\* mutant of Accepts: only the status is looked at
Accepts_StatusOnly(data) == data.status = "ok"

\* springBootResponse.data.updated || springBootResponse.data.status === "ok"
Accepts(data) == data.updated # 0 \/ data.status = "ok"

\* The Spring Boot call answers with data: with `updated` or status "ok"
\* the handler responds; with neither it falls through to the direct update.
UpdSpringBootReturns(r, data) ==
    /\ Awaiting(r, {"springboot"})
    /\ IF Accepts(data)
       THEN /\ upc' = [upc EXCEPT ![r] = "responded"]
            /\ uresp' = [uresp EXCEPT ![r] =
                   [NoUpdResponse EXCEPT !.code = 200,
                                         !.updated = IF data.updated # 0 THEN data.updated
                                                      ELSE 1,
                                         !.location = "spring_boot_api"]]
            /\ UNCHANGED <<upos, lateUpdate>>
       ELSE Continue(r, upos[r], result[r], updateLocation[r], updatedCollection[r])

UpdSpringBootAnswers(r) ==
    /\ \E data \in SpringAnswers : UpdSpringBootReturns(r, data)
    /\ UNCHANGED <<uvariant, store, now, ureq, result, updateLocation,
                   updatedCollection, touched, storeFailed, repeat>>
    /\ UNCHANGED <<gvars, cvars, lvars, svars>>

\* listCollections() or the find() of the not-found branch resolves.
UpdReadResolves(r) ==
    /\ Awaiting(r, {"list", "sample"})
    /\ Continue(r, upos[r], result[r], updateLocation[r], updatedCollection[r])
    /\ UNCHANGED <<uvariant, store, now, ureq, result, updateLocation,
                   updatedCollection, touched, storeFailed, repeat>>
    /\ UNCHANGED <<gvars, cvars, lvars, svars>>

\* updateOne resolves: the store applies the update atomically and the
\* handler records the result.
UpdUpdateResolves(r) ==
    /\ Awaiting(r, {"nested", "main"})
    /\ LET step == Awaited(r)
           b == ureq[r]
           u == UpdateOne(store[step.coll], step, b.subtopicId, b.aiVideoUrl, now)
           res == [matchedCount |-> u.matchedCount, modifiedCount |-> u.modifiedCount]
           loc == IF Matched(res) THEN step.location ELSE updateLocation[r]
           coll == IF Matched(res) THEN step.coll ELSE updatedCollection[r]
       IN  /\ store' = [store EXCEPT ![step.coll] = u.docs]
           /\ result' = [result EXCEPT ![r] = res]
           /\ updateLocation' = [updateLocation EXCEPT ![r] = loc]
           /\ updatedCollection' = [updatedCollection EXCEPT ![r] = coll]
           /\ touched' = [touched EXCEPT ![r] =
                  IF Matched(res)
                  THEN [coll |-> step.coll, doc |-> u.doc, unit |-> u.unit, t |-> now]
                  ELSE @]
           /\ Continue(r, upos[r], res, loc, coll)
    /\ UNCHANGED <<uvariant, now, ureq, storeFailed, repeat>>
    /\ UNCHANGED <<gvars, cvars, lvars, svars>>

\* An awaited call rejects (store or Spring Boot unreachable): inside a try
\* block the error is caught and the handler goes on, otherwise the outer
\* catch answers 500.
UpdCallRejects(r) ==
    /\ upc[r] = "awaiting"
    /\ IF Awaited(r).inTry
       THEN Continue(r, upos[r], result[r], updateLocation[r], updatedCollection[r])
       ELSE /\ upc' = [upc EXCEPT ![r] = "responded"]
            /\ uresp' = [uresp EXCEPT ![r] = UpdFailure]
            /\ UNCHANGED <<upos, lateUpdate>>
    /\ storeFailed' = [storeFailed EXCEPT ![r] = @ \/ Awaited(r).kind # "springboot"]
    /\ UNCHANGED <<uvariant, store, now, ureq, result, updateLocation,
                   updatedCollection, touched, repeat>>
    /\ UNCHANGED <<gvars, cvars, lvars, svars>>

\* time passes: the next new Date() is later
Tick ==
    /\ now < MaxClock
    /\ now' = now + 1
    /\ UNCHANGED <<uvariant, store, ureq, upc, upos, result, updateLocation,
                   updatedCollection, uresp, lateUpdate, touched, storeFailed,
                   repeat>>
    /\ UNCHANGED <<gvars, cvars, lvars, svars>>

(***************************************************************************)
(* Part III.  POST /api/addSubtopic, POST /api/content/updateUnitAI,       *)
(*            PUT /save-full-lesson-adminstyle/:unitId                     *)
(***************************************************************************)
\* The variants of the handlers found in the repository:
\*   add    nesting    : a payload with parentId is pushed on the parent's units
\*          flat       : every payload is inserted as a top-level document
\*   unitAI shared     : input check, the connection made at start
\*          perRequest : input check, MongoClient.connect per request
\*          unchecked  : no input check, MongoClient.connect per request,
\*                       writes units.$.videoUrl
CVariants ==
    [add : {"nesting", "flat"}, unitAI : {"shared", "perRequest", "unchecked"}]

\* test data a unit holds already, and test data a caller supplies
OldTests == "tests-old"
NewTests == "tests-new"

\* req.body (and req.params.unitId) of the three endpoints
UnitAiRequests ==
    [op : {"updateUnitAI"}, id : {Undefined, OtherHexId, PlainId},
     videoUrl : VideoUrls, tests : {Undefined, NewTests}, parentId : {Undefined},
     unitName : {Undefined}, explanation : {Undefined}, subject : {Undefined}]
LessonRequests ==
    [op : {"saveFullLesson"}, id : {OtherHexId, PlainId},
     videoUrl : VideoUrls, tests : {Undefined, NewTests}, parentId : {Undefined},
     unitName : {"unit"}, explanation : {"explained"},
     subject : {Undefined, "Chemistry"}]
AddRequests ==
    [op : {"addSubtopic"}, id : {Undefined, OtherHexId, PlainId},
     videoUrl : VideoUrls, tests : {Undefined},
     parentId : {Undefined, HexId, OtherHexId},
     unitName : {Undefined, "unit"}, explanation : {Undefined}, subject : {Undefined}]
CRequests == UnitAiRequests \cup LessonRequests \cup AddRequests
NoCRequest ==
    [op |-> "none", id |-> Undefined, videoUrl |-> Undefined, tests |-> Undefined,
     parentId |-> Undefined, unitName |-> Undefined, explanation |-> Undefined,
     subject |-> Undefined]

\* collections[(subjectName || "physics").toLowerCase()]: the collection of
\* the subject, "" when the subject has none
LessonCollection(subject) ==
    IF OrElse(subject, "Physics") \in Colls THEN OrElse(subject, "Physics") ELSE ""

\* the responses
NoCResponse ==
    [code |-> 0, status |-> "", updated |-> 0, insertedId |-> NoField,
     insertedSubId |-> Undefined, parentUpdated |-> Undefined]
\* res.status(400).json(...), res.status(500).json(...)
CRefused == [NoCResponse EXCEPT !.code = 400, !.status = "error"]
CFailure == [NoCResponse EXCEPT !.code = 500, !.status = "error"]
\* res.json({ status: "ok", updated: result.modifiedCount })
COkUpdated(res) ==
    [NoCResponse EXCEPT !.code = 200, !.status = "ok", !.updated = res.modifiedCount]
\* res.json({ status: "ok", insertedId, insertedSubId, parentUpdated })
COkInserted(id, sub, parent) ==
    [NoCResponse EXCEPT !.code = 200, !.status = "ok", !.insertedId = id,
                        !.insertedSubId = sub, !.parentUpdated = parent]

\* { $set: { "units.$.aiVideoUrl": videoUrl, "units.$.aiTestData": aiTestData || [] } }
\* (the unchecked variant sets units.$.videoUrl and aiTestData as given)
UnitAiSet(v, u, q) ==
    IF v = "unchecked"
    THEN [u EXCEPT !.videoUrl = ToStored(q.videoUrl), !.aiTestData = ToStored(q.tests)]
    ELSE [u EXCEPT !.aiVideoUrl = ToStored(q.videoUrl),
                   !.aiTestData = OrElse(q.tests, EmptyList)]
\* the $set of save-full-lesson-adminstyle (audioFileId and imageUrls are
\* written by the same `|| []` rule as aiTestData)
LessonSet(u, q) ==
    [u EXCEPT !.unitName = ToStored(q.unitName),
              !.explanation = ToStored(q.explanation),
              !.aiVideoUrl = OrElse(q.videoUrl, ""),
              !.aiTestData = OrElse(q.tests, EmptyList)]
\* the element pushed on the parent's units by addSubtopic
PushedUnit(uid, q) ==
    [Unit(NoField, uid) EXCEPT !.unitName = q.unitName,
                               !.explanation = ToStored(q.explanation),
                               !.aiVideoUrl = OrElse(q.videoUrl, "")]
\* the document inserted by addSubtopic: { ...payload, _id, createdAt, updatedAt }
InsertedDoc(did, q, t) ==
    [Doc(did, <<>>) EXCEPT !.unitName = q.unitName,
                           !.aiVideoUrl = OrElse(q.videoUrl, ""),
                           !.updatedAt = t]

\* the store calls: what the handler awaits
NoCall ==
    [kind |-> "none", coll |-> "", field |-> "", val |-> NoField, newId |-> NoField]
ConnectCall == [NoCall EXCEPT !.kind = "connect"]
\* the handler threw before the call was made
Thrown == [NoCall EXCEPT !.kind = "thrown"]
\* updateOne({ [field]: val }, { $set })
SetCall(c, field, val) ==
    [NoCall EXCEPT !.kind = "set", !.coll = c, !.field = field, !.val = val]
\* updateOne({ _id: val }, { $push: { units: { _id: newId, ... } } })
PushCall(c, val, newId) ==
    [NoCall EXCEPT !.kind = "push", !.coll = c, !.field = "_id", !.val = val,
                   !.newId = newId]
\* insertOne({ _id: newId, ... })
InsertCall(c, newId) == [NoCall EXCEPT !.kind = "insert", !.coll = c, !.newId = newId]

\* mutant of CRefuses: addSubtopic does not test unitName
CRefuses_NoNameCheck(v, q) ==
    CASE q.op = "updateUnitAI" -> v.unitAI # "unchecked" /\ ~Truthy(q.id)
      [] q.op = "saveFullLesson" -> LessonCollection(q.subject) = ""
      [] OTHER -> FALSE

\* TRUE when the handler refuses the request with 400
CRefuses(v, q) ==
    CASE q.op = "updateUnitAI" -> v.unitAI # "unchecked" /\ ~Truthy(q.id)
      [] q.op = "saveFullLesson" -> LessonCollection(q.subject) = ""
      [] OTHER -> ~Truthy(q.unitName)

\* TRUE when the handler awaits MongoClient.connect before its store call
Connects(v, q) == q.op = "updateUnitAI" /\ v.unitAI # "shared"

\* identifiers new ObjectId() generates while the store call is built
FreshForCall(v, q) ==
    CASE q.op = "updateUnitAI" -> IF Truthy(q.id) THEN 0 ELSE 1
      [] q.op = "saveFullLesson" -> 0
      [] v.add = "flat" -> 1
      [] Truthy(q.parentId) -> IF Truthy(q.id) THEN 1 ELSE 2
      [] OTHER -> IF Truthy(q.id) THEN 0 ELSE 1
\* identifiers new ObjectId() generates while the response is built
FreshForResponse(v, q) ==
    IF q.op = "addSubtopic" /\ v.add = "nesting" /\ Truthy(q.parentId) /\ ~Truthy(q.id)
    THEN 2 ELSE 0

\* The store call the handler builds, f identifiers having been generated
\* before; Thrown when new ObjectId(...) rejects its argument.
StoreCall(v, q, f) ==
    CASE q.op = "updateUnitAI" ->
            \* { "units._id": new ObjectId(unitId) }
            IF ~Truthy(q.id) THEN SetCall("Content", "_id", Oid(FreshId(f + 1)))
            ELSE IF ~ValidObjectId(q.id) THEN Thrown
            ELSE SetCall("Content", "_id", Oid(q.id))
      [] q.op = "saveFullLesson" ->
            \* { "units._id": unitId }
            SetCall(LessonCollection(q.subject), "_id", Str(q.id))
      [] v.add = "flat" ->
            \* insertOne(subtopicData): the driver generates the _id
            InsertCall("Content", Oid(FreshId(f + 1)))
      [] Truthy(q.parentId) ->
            \* documentToInsert._id = new ObjectId() is generated and not used;
            \* units._id = payload.subtopicId || new ObjectId().toString()
            IF ~ValidObjectId(q.parentId) THEN Thrown
            ELSE PushCall("Content", Oid(q.parentId),
                          IF Truthy(q.id) THEN Str(q.id) ELSE Str(FreshId(f + 2)))
      [] OTHER ->
            \* _id = new ObjectId(payload.subtopicId || undefined)
            IF ~Truthy(q.id) THEN InsertCall("Content", Oid(FreshId(f + 1)))
            ELSE IF ~ValidObjectId(q.id) THEN Thrown
            ELSE InsertCall("Content", Oid(q.id))

\* updateOne with $set on the positional element units.$
SetUnit(docs, call, v, q) ==
    LET d == First({i \in 1..Len(docs) : UnitIndex(docs[i], call.field, call.val) # 0})
    IN  IF d = 0
        THEN [docs |-> docs, matchedCount |-> 0, modifiedCount |-> 0]
        ELSE LET k == UnitIndex(docs[d], call.field, call.val)
                 u == IF q.op = "updateUnitAI" THEN UnitAiSet(v.unitAI, docs[d].units[k], q)
                      ELSE LessonSet(docs[d].units[k], q)
                 new == [docs[d] EXCEPT !.units[k] = u]
             IN  [docs |-> [docs EXCEPT ![d] = new], matchedCount |-> 1,
                  modifiedCount |-> IF new = docs[d] THEN 0 ELSE 1]
\* mutant of PushUnit: an upsert, a parent is created when none matches
PushUnit_Upserts(docs, call, q) ==
    LET d == First({i \in 1..Len(docs) : docs[i]._id = call.val})
    IN  IF d = 0
        THEN [docs |-> Append(docs, Doc(call.val, <<PushedUnit(call.newId, q)>>)),
              matchedCount |-> 0, modifiedCount |-> 0]
        ELSE [docs |-> [docs EXCEPT ![d].units = Append(@, PushedUnit(call.newId, q))],
              matchedCount |-> 1, modifiedCount |-> 1]

\* updateOne with $push on units of the document whose _id is call.val
PushUnit(docs, call, q) ==
    LET d == First({i \in 1..Len(docs) : docs[i]._id = call.val})
    IN  IF d = 0
        THEN [docs |-> docs, matchedCount |-> 0, modifiedCount |-> 0]
        ELSE [docs |-> [docs EXCEPT ![d].units = Append(@, PushedUnit(call.newId, q))],
              matchedCount |-> 1, modifiedCount |-> 1]
\* insertOne rejects a document whose _id is taken (duplicate key)
DuplicateKey(docs, call) == \E i \in 1..Len(docs) : docs[i]._id = call.newId

\* identifiers generated before new ObjectId(...) rejects its argument
FreshBeforeThrow(v, q) ==
    IF q.op = "addSubtopic" /\ v.add = "nesting" /\ Truthy(q.parentId) THEN 1 ELSE 0

\* The handler builds its store call and awaits it, or throws into its
\* catch block.
CIssue(q) ==
    LET call == StoreCall(cvariant, q, fresh)
    IN  IF call = Thrown
        THEN /\ cpc' = "responded"
             /\ cresp' = CFailure
             /\ ccall' = NoCall
             /\ fresh' = fresh + FreshBeforeThrow(cvariant, q)
        ELSE /\ cpc' = "awaiting"
             /\ cresp' = NoCResponse
             /\ ccall' = call
             /\ fresh' = fresh + FreshForCall(cvariant, q)

\* A request for one of the endpoints `ops` arrives: the input check, then
\* the first awaited call.
CReceive(ops) ==
    /\ cpc \in {"idle", "responded"}
    /\ \E q \in {b \in CRequests : b.op \in ops} :
        /\ fresh + FreshForCall(cvariant, q) + FreshForResponse(cvariant, q) <= MaxFresh
        /\ Connects(cvariant, q) => conns < MaxConns
        /\ creq' = q
        /\ IF CRefuses(cvariant, q)
           THEN /\ cpc' = "responded"
                /\ cresp' = CRefused
                /\ ccall' = NoCall
                /\ fresh' = fresh
           ELSE IF Connects(cvariant, q)
           THEN /\ cpc' = "connecting"
                /\ cresp' = NoCResponse
                /\ ccall' = ConnectCall
                /\ fresh' = fresh
           ELSE CIssue(q)
    /\ cbefore' = store
    /\ cres' = NoResult
    /\ UNCHANGED <<cvariant, conns, uvars, gvars, lvars, svars>>

\* MongoClient.connect resolves: the handler holds a connection of its own,
\* builds the store call and awaits it.  When new ObjectId() throws, the
\* catch block answers and the connection stays open.
CConnectResolves ==
    /\ cpc = "connecting"
    /\ CIssue(creq)
    /\ conns' = conns + 1
    /\ UNCHANGED <<cvariant, creq, cres, cbefore, uvars, gvars, lvars, svars>>

\* updateOne with $set resolves: the response carries modifiedCount; a
\* handler that connected closes its connection after responding.
CSetResolves ==
    /\ cpc = "awaiting"
    /\ ccall.kind = "set"
    /\ LET u == SetUnit(store[ccall.coll], ccall, cvariant, creq)
           res == [matchedCount |-> u.matchedCount, modifiedCount |-> u.modifiedCount]
       IN  /\ store' = [store EXCEPT ![ccall.coll] = u.docs]
           /\ cres' = res
           /\ cresp' = COkUpdated(res)
    /\ cpc' = "responded"
    /\ conns' = IF Connects(cvariant, creq) THEN conns - 1 ELSE conns
    /\ UNCHANGED <<cvariant, creq, ccall, cbefore, fresh, now, uhandler, gvars, lvars, svars>>

\* updateOne with $push resolves: the response names the new element by
\* payload.subtopicId || new ObjectId().toString(), evaluated twice more.
CPushResolves ==
    /\ cpc = "awaiting"
    /\ ccall.kind = "push"
    /\ LET u == PushUnit(store[ccall.coll], ccall, creq)
           res == [matchedCount |-> u.matchedCount, modifiedCount |-> u.modifiedCount]
           id == IF Truthy(creq.id) THEN creq.id ELSE FreshId(fresh + 1)
           sub == IF Truthy(creq.id) THEN creq.id ELSE FreshId(fresh + 2)
       IN  /\ store' = [store EXCEPT ![ccall.coll] = u.docs]
           /\ cres' = res
           /\ cresp' = COkInserted(Str(id), sub,
                                   IF res.modifiedCount > 0 THEN "true" ELSE "false")
    /\ fresh' = fresh + FreshForResponse(cvariant, creq)
    /\ cpc' = "responded"
    /\ UNCHANGED <<cvariant, creq, ccall, cbefore, conns, now, uhandler, gvars, lvars, svars>>

\* insertOne resolves: the response carries result.insertedId.
CInsertResolves ==
    /\ cpc = "awaiting"
    /\ ccall.kind = "insert"
    /\ ~DuplicateKey(store[ccall.coll], ccall)
    /\ store' = [store EXCEPT
           ![ccall.coll] = Append(@, InsertedDoc(ccall.newId, creq, now))]
    /\ cresp' = COkInserted(ccall.newId,
                            IF cvariant.add = "nesting" THEN ccall.newId.v ELSE Undefined,
                            Undefined)
    /\ cpc' = "responded"
    /\ UNCHANGED <<cvariant, creq, ccall, cres, cbefore, fresh, conns, now, uhandler, gvars, lvars, svars>>

\* The awaited call rejects (connection refused, store error, duplicate
\* key): the catch block answers 500 and closes nothing.
CCallRejects ==
    /\ cpc \in {"connecting", "awaiting"}
    /\ cpc' = "responded"
    /\ cresp' = CFailure
    /\ UNCHANGED <<cvariant, creq, ccall, cres, cbefore, fresh, conns, uvars, gvars, lvars, svars>>

(***************************************************************************)
(* Part IV.  GET /api/debug-subtopic/:id                                   *)
(***************************************************************************)
\* Each variant of the server has its own debug handler, next to its update
\* handler; `uvariant` names both.

\* findOne({ "units.id": id })
LocNestedId(c) == [NestedId(c) EXCEPT !.location = "nested_in_units"]
\* findOne({ "units._id": id }) inside try/catch
LocNestedUidString(c) ==
    [NestedUidString(c) EXCEPT !.location = "nested_in_units", !.inTry = TRUE]
\* findOne({ "units._id": new ObjectId(id) }) inside try/catch
LocNestedUidOid(c) == [NestedUidOid(c) EXCEPT !.location = "nested_in_units_objectid"]
\* findOne({ $or: [{ _id: id }, { "units.id": id }, { parentId: id }, { rootUnitId: id }] })
AnyField(c) ==
    [kind |-> "any", coll |-> c, field |-> "", oid |-> FALSE, inTry |-> FALSE,
     stampsParent |-> FALSE, location |-> "any_field"]
\* find({}).toArray() filtered by JSON.stringify(doc).includes(id), in try/catch
StringSearch(c) ==
    [kind |-> "scan", coll |-> c, field |-> "", oid |-> FALSE, inTry |-> TRUE,
     stampsParent |-> FALSE, location |-> "string_search"]
\* find({}).limit(2).toArray() of the not-found branch, one per collection
LocSample(c) == [SampleStep EXCEPT !.coll = c]

RECURSIVE LocInCollections(_, _)
LocInCollections(v, cs) ==
    IF cs = <<>> THEN <<>>
    ELSE (CASE v = "springboot" -> <<MainOid(Head(cs)), LocNestedId(Head(cs))>>
            [] v = "allcolls" ->
                  <<MainOid(Head(cs)), LocNestedId(Head(cs)), AnyField(Head(cs))>>
            [] OTHER -> <<LocNestedId(Head(cs)), MainOid(Head(cs))>>)
         \o LocInCollections(v, Tail(cs))

\* mutant of LocPlan: with a subjectName the hinted variant searches the
\* hinted collection only
LocPlan_HintOnly(v, hint) ==
    CASE v = "springboot" ->
            (IF hint # NoHint THEN LocInCollections(v, <<hint>>) ELSE <<>>)
            \o <<ListStep>> \o LocInCollections(v, CollNames) \o <<SpringBootStep>>
      [] v = "allcolls" ->
            <<ListStep>> \o LocInCollections(v, CollNames)
            \o [i \in 1..Len(CollNames) |-> LocSample(CollNames[i])]
      [] v = "content" ->
            <<MainOid("Content"), LocNestedUidString("Content"),
              LocNestedUidOid("Content"), StringSearch("Content"), SampleStep>>
      [] OTHER ->
            IF hint # NoHint THEN LocInCollections(v, <<hint>>)
            ELSE <<ListStep>> \o LocInCollections(v, CollNames)

\* The store and provider calls the debug handler awaits, in program order.
LocPlan(v, hint) ==
    CASE v = "springboot" ->
            (IF hint # NoHint THEN LocInCollections(v, <<hint>>) ELSE <<>>)
            \o <<ListStep>> \o LocInCollections(v, CollNames) \o <<SpringBootStep>>
      [] v = "allcolls" ->
            <<ListStep>> \o LocInCollections(v, CollNames)
            \o [i \in 1..Len(CollNames) |-> LocSample(CollNames[i])]
      [] v = "content" ->
            <<MainOid("Content"), LocNestedUidString("Content"),
              LocNestedUidOid("Content"), StringSearch("Content"), SampleStep>>
      [] OTHER ->
            (IF hint # NoHint THEN LocInCollections(v, <<hint>>) ELSE <<>>)
            \o <<ListStep>> \o LocInCollections(v, CollNames)

\* the steps that look for the record
Searches == {"main", "nested", "any", "scan"}

\* does the document satisfy the filter of a search step?
LocMatches(doc, step, id) ==
    CASE step.kind = "any" ->
            doc._id = Str(id) \/ UnitIndex(doc, "id", Str(id)) # 0
      [] step.kind = "scan" ->
            \/ doc._id.v = id
            \/ \E k \in 1..Len(doc.units) : doc.units[k].id.v = id \/ doc.units[k]._id.v = id
      [] OTHER -> DocMatches(doc, step, id)
\* findOne: is there a matching document?
FindOne(docs, step, id) == \E i \in 1..Len(docs) : LocMatches(docs[i], step, id)

\* the position of the next step the handler awaits from position p on: a
\* search by native id is passed over when new ObjectId() throws
RECURSIVE LocNextAwait(_, _, _)
LocNextAwait(plan, p, id) ==
    IF p > Len(plan) THEN p
    ELSE IF plan[p].oid /\ ~ValidObjectId(id) THEN LocNextAwait(plan, p + 1, id)
    ELSE p

\* req.params.id, req.query.subjectName
LocRequests(v) == [id : ReqIds, subjectName : Hints(v)]
NoLocRequest == [id |-> Undefined, subjectName |-> NoHint]

\* the responses
NoLocResponse == [code |-> 0, found |-> FALSE, location |-> "", collection |-> Undefined]
\* res.json({ found: true, location, collection, subtopic })
LocFound(v, step) ==
    [code |-> 200, found |-> TRUE, location |-> step.location,
     collection |-> IF v = "content" THEN Undefined ELSE step.coll]
\* res.json(springBootResponse.data)
LocForwarded == [code |-> 200, found |-> TRUE, location |-> "forwarded", collection |-> Undefined]
\* res.json({ found: false, message })
LocNotFound == [NoLocResponse EXCEPT !.code = 200]
\* res.status(500).json({ error: err.message })
LocFailure == [NoLocResponse EXCEPT !.code = 500]

\* The code that runs after position p has settled without a find, up to
\* the next await or to the not-found response.
LocContinue(p) ==
    LET plan == LocPlan(uvariant, lreq.subjectName)
        n == LocNextAwait(plan, p + 1, lreq.id)
    IN  /\ lpos' = n
        /\ IF n <= Len(plan)
           THEN lpc' = "awaiting" /\ lresp' = lresp
           ELSE lpc' = "responded" /\ lresp' = LocNotFound

\* A request arrives: the handler runs to its first awaited call.
LocReceive ==
    /\ lpc \in {"idle", "responded"}
    /\ \E q \in LocRequests(uvariant) :
        /\ lreq' = q
        /\ lpos' = LocNextAwait(LocPlan(uvariant, q.subjectName), 1, q.id)
    /\ lpc' = "awaiting"
    /\ lresp' = NoLocResponse
    /\ ltried' = {}
    /\ lfailed' = FALSE
    /\ UNCHANGED <<gvars, uvars, cvars, svars>>

\* the step the handler is waiting for
LocAwaited == LocPlan(uvariant, lreq.subjectName)[lpos]
LocAwaiting(kinds) == lpc = "awaiting" /\ LocAwaited.kind \in kinds

\* A findOne (or the find of the string search) resolves: with a document
\* the handler responds, without one it goes on.
LocFindResolves ==
    /\ LocAwaiting(Searches)
    /\ ltried' = ltried \cup {<<LocAwaited.coll, LocAwaited.location>>}
    /\ IF FindOne(store[LocAwaited.coll], LocAwaited, lreq.id)
       THEN /\ lpc' = "responded"
            /\ lresp' = LocFound(uvariant, LocAwaited)
            /\ lpos' = lpos
       ELSE LocContinue(lpos)
    /\ UNCHANGED <<lreq, lfailed>>
    /\ UNCHANGED <<gvars, uvars, cvars, svars>>

\* listCollections() or a find() of the not-found branch resolves.
LocReadResolves ==
    /\ LocAwaiting({"list", "sample"})
    /\ LocContinue(lpos)
    /\ UNCHANGED <<lreq, ltried, lfailed>>
    /\ UNCHANGED <<gvars, uvars, cvars, svars>>

\* The Spring Boot debug call answers: an answer with `found` is forwarded.
LocSpringBootAnswers ==
    /\ LocAwaiting({"springboot"})
    /\ \E found \in BOOLEAN :
        IF found
        THEN lpc' = "responded" /\ lresp' = LocForwarded /\ lpos' = lpos
        ELSE LocContinue(lpos)
    /\ UNCHANGED <<lreq, ltried, lfailed>>
    /\ UNCHANGED <<gvars, uvars, cvars, svars>>

\* An awaited call rejects: inside a try block the handler goes on as if
\* nothing had matched, otherwise the outer catch answers 500.
LocCallRejects ==
    /\ lpc = "awaiting"
    /\ IF LocAwaited.inTry
       THEN LocContinue(lpos)
       ELSE lpc' = "responded" /\ lresp' = LocFailure /\ lpos' = lpos
    /\ ltried' = IF LocAwaited.kind \in Searches
                 THEN ltried \cup {<<LocAwaited.coll, LocAwaited.location>>}
                 ELSE ltried
    /\ lfailed' = (lfailed \/ LocAwaited.kind # "springboot")
    /\ UNCHANGED lreq
    /\ UNCHANGED <<gvars, uvars, cvars, svars>>

(***************************************************************************)
(* Part V.  POST /save-full-data                                           *)
(***************************************************************************)
\* The variants of the handler found in the repository:
\*   lessons : insertOne into the collection bound at startup
\*   physics : input check, insertOne into "Physics"
\*   upsert  : db check, input check, upsert into the subject's collection
\*   general : db check, upsert into the subject's collection or "General"
SaveVariants == {"lessons", "physics", "upsert", "general"}

\* collection names, as character sequences
General == <<"G">>
Physics == <<"P">>
Lessons == <<"l">>
SaveColls == {General, Physics, Lessons}

\* req.body.subjectName: absent, a string, or a value that is not a string
NoSubject == [t |-> "undefined", s |-> <<>>]
Subject(s) == [t |-> "string", s |-> s]
NotAString == [t |-> "number", s |-> <<>>]
SubjectNames == {NoSubject, Subject(<<" ", "P">>), NotAString}

\* req.body
SaveRequests ==
    {b \in [subtopicId : {Undefined, HexId, PlainId},
            subtopicName : {Undefined, "topic"},
            description : {Undefined, "first", "second"},
            video_url : {Undefined, UrlSeq[1]},
            questions : {Undefined, "questions"},
            subjectName : SubjectNames] :
        \* a body that lacks a field is drawn once for each field
        LET missing == {f \in {"subtopicName", "description", "video_url"} :
                            b[f] = Undefined}
        IN  /\ Cardinality(missing) <= 1
            /\ missing # {} => b.subjectName = Subject(<<" ", "P">>)
            \* the first version of a lesson has no questions, the second has
            /\ b.questions = "questions" <=> b.description = "second"
            /\ (missing # {} \/ b.subtopicId = Undefined \/ b.subjectName = NotAString)
                  => b.description # "second"
            /\ b.subjectName = NotAString => b.subtopicId = Undefined}
NoSaveRequest ==
    [subtopicId |-> Undefined, subtopicName |-> Undefined, description |-> Undefined,
     video_url |-> Undefined, questions |-> Undefined, subjectName |-> NoSubject]

\* the responses
NoSaveResponse == [code |-> 0, body |-> ""]
\* res.json({ message: "Data saved successfully." })
SaveOk == [code |-> 200, body |-> "Data saved successfully."]
\* res.status(400).json({ error: "Missing required fields" })
SaveMissing == [code |-> 400, body |-> "Missing required fields"]
\* res.status(500).json({ error: "Database not connected yet" })
SaveNotConnected == [code |-> 500, body |-> "Database not connected yet"]
\* res.status(500).json({ error: "Failed to save to database" })
SaveFailure == [code |-> 500, body |-> "Failed to save to database"]
\* the framework's own answer to a handler whose promise rejected
SaveUnhandled == [code |-> 500, body |-> "Internal Server Error"]

\* mutant of ChecksDb: the handler does not look at the handle
ChecksDb_Never(v) == FALSE

\* if (!db) return res.status(500)...
ChecksDb(v) == v \in {"upsert", "general"}
\* if (!subtopicName || !description || !subjectName || !video_url)
SaveRefuses(v, b) ==
    CASE v = "physics" ->
            ~Truthy(b.subtopicName) \/ ~Truthy(b.description) \/ ~Truthy(b.video_url)
      [] v = "upsert" ->
            \/ ~Truthy(b.subtopicName) \/ ~Truthy(b.description) \/ ~Truthy(b.video_url)
            \/ b.subjectName = NoSubject
      [] OTHER -> FALSE
\* subjectName.trim() / subjectName?.trim(), evaluated before the try block:
\* a TypeError when the value has no trim method
TrimThrows(v, b) == v \in {"upsert", "general"} /\ b.subjectName = NotAString
\* the collection written
CollectionName(v, b) ==
    CASE v = "lessons" -> Lessons
      [] v = "physics" -> Physics
      [] v = "upsert" -> Trim(b.subjectName.s)
      [] OTHER -> IF b.subjectName = NoSubject \/ Trim(b.subjectName.s) = <<>>
                  THEN General ELSE Trim(b.subjectName.s)

\* questions as written by each variant
SavedQuestions(v, b) ==
    IF v \in {"physics", "upsert"} THEN OrElse(b.questions, EmptyList)
    ELSE ToStored(b.questions)
\* the document a request writes under the given _id at time t
SavedDoc(v, id, b, t) ==
    [_id |-> id, subtopicName |-> ToStored(b.subtopicName),
     description |-> ToStored(b.description), videoUrl |-> ToStored(b.video_url),
     questions |-> SavedQuestions(v, b), date_added |-> t]

\* the store call
NoSaveCall == [kind |-> "none", coll |-> <<>>, id |-> NoField]
\* insertOne(doc): the driver generates the _id
\* updateOne({ _id }, { $set }, { upsert: true }) where _id is
\* new ObjectId(subtopicId) for a valid subtopicId and new ObjectId() otherwise
SaveCall(v, b, g) ==
    IF v \in {"lessons", "physics"}
    THEN [kind |-> "insert", coll |-> CollectionName(v, b), id |-> Oid(FreshId(g + 1))]
    ELSE [kind |-> "upsert", coll |-> CollectionName(v, b),
          id |-> IF Truthy(b.subtopicId) /\ ValidObjectId(b.subtopicId)
                 THEN Oid(b.subtopicId) ELSE Oid(FreshId(g + 1))]
\* TRUE when the call is built with a generated identifier
Generates(v, b) ==
    v \in {"lessons", "physics"} \/ ~(Truthy(b.subtopicId) /\ ValidObjectId(b.subtopicId))

\* mutant of Written: insertOne, the document is always added
Written_AlwaysAdds(docs, call, v, b, t) ==
    Append(docs, SavedDoc(v, call.id, b, t))

\* the documents of a collection after the write
Written(docs, call, v, b, t) ==
    LET d == First({i \in 1..Len(docs) : docs[i]._id = call.id})
    IN  IF d = 0 THEN Append(docs, SavedDoc(v, call.id, b, t))
        ELSE [docs EXCEPT ![d] = SavedDoc(v, call.id, b, t)]

\* The startup connection completes: db (or collection) is assigned.
SaveDbConnects ==
    /\ ~db
    /\ db' = TRUE
    /\ UNCHANGED <<svariant, lessons, sreq, spc, scall, sresp, generated>>
    /\ UNCHANGED <<gvars, uvars, cvars, lvars>>

\* A request arrives: the checks, then the awaited store call.  What runs
\* before the try block is not covered by the catch: when it throws, the
\* handler's promise rejects and the handler sends nothing; the framework
\* either leaves the request open or answers with its own error page.
SaveReceive ==
    /\ spc \in {"idle", "responded", "threw"}
    /\ \E b \in SaveRequests :
        /\ Generates(svariant, b) => generated < MaxSaved
        /\ sreq' = b
        /\ IF ChecksDb(svariant) /\ ~db
           THEN spc' = "responded" /\ sresp' = SaveNotConnected
                /\ scall' = NoSaveCall /\ generated' = generated
           ELSE IF SaveRefuses(svariant, b)
           THEN spc' = "responded" /\ sresp' = SaveMissing
                /\ scall' = NoSaveCall /\ generated' = generated
           ELSE IF TrimThrows(svariant, b)
           THEN spc' = "threw" /\ sresp' \in {NoSaveResponse, SaveUnhandled}
                /\ scall' = NoSaveCall /\ generated' = generated
           ELSE IF svariant = "lessons" /\ ~db
           \* collection is undefined: the TypeError is thrown inside try
           THEN spc' = "responded" /\ sresp' = SaveFailure
                /\ scall' = NoSaveCall /\ generated' = generated
           ELSE spc' = "awaiting" /\ sresp' = NoSaveResponse
                /\ scall' = SaveCall(svariant, b, generated)
                /\ generated' = IF Generates(svariant, b) THEN generated + 1
                                ELSE generated
    /\ UNCHANGED <<svariant, db, lessons>>
    /\ UNCHANGED <<gvars, uvars, cvars, lvars>>

\* insertOne or updateOne resolves: the document is written and the handler
\* answers.
SaveWriteResolves ==
    /\ spc = "awaiting"
    /\ lessons' = [lessons EXCEPT
           ![scall.coll] = Written(@, scall, svariant, sreq, now)]
    /\ spc' = "responded"
    /\ sresp' = SaveOk
    /\ UNCHANGED <<svariant, db, sreq, scall, generated>>
    /\ UNCHANGED <<gvars, uvars, cvars, lvars>>

\* The store call rejects: the catch block answers 500.
SaveCallRejects ==
    /\ spc = "awaiting"
    /\ spc' = "responded"
    /\ sresp' = SaveFailure
    /\ UNCHANGED <<svariant, db, lessons, sreq, scall, generated>>
    /\ UNCHANGED <<gvars, uvars, cvars, lvars>>

(***************************************************************************)
(* Specifications                                                          *)
(***************************************************************************)
\* the generation handler at rest
GenIdle ==
    /\ gvariant = "timed"
    /\ gpc = "idle"
    /\ greq = NoGenRequest
    /\ status = "notDone"
    /\ videoUrl = ""
    /\ elapsed = 0
    /\ retries = 0
    /\ polls = 0
    /\ submits = 0
    /\ doneAnswer = NoAnswer
    /\ gresp = NoGenResponse

\* the update handler at rest, on an empty database
UpdIdle ==
    /\ uvariant = "springboot"
    /\ store = [c \in Colls |-> <<>>]
    /\ now = 1
    /\ ureq = [r \in Reqs |-> NoUpdRequest]
    /\ upc = [r \in Reqs |-> "idle"]
    /\ upos = [r \in Reqs |-> 0]
    /\ result = [r \in Reqs |-> NoResult]
    /\ updateLocation = [r \in Reqs |-> "unknown"]
    /\ updatedCollection = [r \in Reqs |-> "unknown"]
    /\ uresp = [r \in Reqs |-> NoUpdResponse]
    /\ lateUpdate = [r \in Reqs |-> FALSE]
    /\ touched = [r \in Reqs |-> NoSite]
    /\ storeFailed = [r \in Reqs |-> FALSE]
    /\ repeat = [r \in Reqs |-> NoRepeat]

\* the handlers of Part III at rest
CIdle ==
    /\ cvariant = [add |-> "nesting", unitAI |-> "shared"]
    /\ creq = NoCRequest
    /\ cpc = "idle"
    /\ ccall = NoCall
    /\ cresp = NoCResponse
    /\ cres = NoResult
    /\ cbefore = [c \in Colls |-> <<>>]
    /\ fresh = 0
    /\ conns = 0

\* the debug handler at rest
LocIdle ==
    /\ lreq = NoLocRequest
    /\ lpc = "idle"
    /\ lpos = 0
    /\ lresp = NoLocResponse
    /\ ltried = {}
    /\ lfailed = FALSE

\* the save handler at rest, the startup connection made
SaveIdle ==
    /\ svariant = "upsert"
    /\ db = TRUE
    /\ lessons = [c \in SaveColls |-> <<>>]
    /\ sreq = NoSaveRequest
    /\ spc = "idle"
    /\ scall = NoSaveCall
    /\ sresp = NoSaveResponse
    /\ generated = 0

\* ---- POST /generate-and-upload, one request after the other ----
GenInit ==
    /\ UpdIdle
    /\ CIdle
    /\ LocIdle
    /\ SaveIdle
    /\ gvariant \in GenVariants
    /\ gpc = "idle"
    /\ greq = NoGenRequest
    /\ status = "notDone"
    /\ videoUrl = ""
    /\ elapsed = 0
    /\ retries = 0
    /\ polls = 0
    /\ submits = 0
    /\ doneAnswer = NoAnswer
    /\ gresp = NoGenResponse

GenNext ==
    \/ GenReceive
    \/ GenSubmit
    \/ GenSubmitFails
    \/ GenPollReturns
    \/ GenPollFails
    \/ GenSleepEnds

GenSpec == GenInit /\ [][GenNext]_vars

\* Every call the handler awaits settles (the provider answers or the call
\* fails) and every timer fires.
GenFairSpec ==
    /\ GenSpec
    /\ WF_vars(GenSubmit \/ GenSubmitFails)
    /\ WF_vars(GenPollReturns)
    /\ WF_vars(GenSleepEnds)

\* ---- PUT /api/updateSubtopicVideo, one request after the other ----
Init ==
    /\ GenIdle
    /\ CIdle
    /\ LocIdle
    /\ SaveIdle
    /\ uvariant \in UpdVariants
    /\ store \in Stores
    \* the content variant runs on a database that holds "Content" only
    /\ uvariant = "content" => \A c \in Colls \ {"Content"} : store[c] = <<>>
    /\ now = 1
    /\ ureq = [r \in Reqs |-> NoUpdRequest]
    /\ upc = [r \in Reqs |-> "idle"]
    /\ upos = [r \in Reqs |-> 0]
    /\ result = [r \in Reqs |-> NoResult]
    /\ updateLocation = [r \in Reqs |-> "unknown"]
    /\ updatedCollection = [r \in Reqs |-> "unknown"]
    /\ uresp = [r \in Reqs |-> NoUpdResponse]
    /\ lateUpdate = [r \in Reqs |-> FALSE]
    /\ touched = [r \in Reqs |-> NoSite]
    /\ storeFailed = [r \in Reqs |-> FALSE]
    /\ repeat = [r \in Reqs |-> NoRepeat]

Next ==
    \/ \E r \in Sequential : UpdReceive(r)
    \/ \E r \in Sequential : UpdSpringBootAnswers(r)
    \/ \E r \in Sequential : UpdReadResolves(r)
    \/ \E r \in Sequential : UpdUpdateResolves(r)
    \/ \E r \in Sequential : UpdCallRejects(r)
    \/ Tick

Spec == Init /\ [][Next]_vars

\* ---- addSubtopic, updateUnitAI, save-full-lesson-adminstyle ----
\* the units and documents of the initial database: lessons that hold test
\* data already, identified by a native id or by a string
LessonUnits ==
    {[Unit(NoField, Oid(OtherHexId)) EXCEPT !.aiTestData = OldTests],
     [Unit(NoField, Str(PlainId)) EXCEPT !.aiTestData = OldTests]}
LessonDocs ==
    {Doc(Oid(HexId), us) : us \in UNION {[1..n -> LessonUnits] : n \in 0..MaxLessonUnits}}
LessonStores == [Colls -> {<<>>} \cup {<<d>> : d \in LessonDocs}]

\* everything but the database and Part III at rest
OthersIdle ==
    /\ GenIdle
    /\ LocIdle
    /\ SaveIdle
    /\ uvariant = "content"
    /\ now = 1
    /\ ureq = [r \in Reqs |-> NoUpdRequest]
    /\ upc = [r \in Reqs |-> "idle"]
    /\ upos = [r \in Reqs |-> 0]
    /\ result = [r \in Reqs |-> NoResult]
    /\ updateLocation = [r \in Reqs |-> "unknown"]
    /\ updatedCollection = [r \in Reqs |-> "unknown"]
    /\ uresp = [r \in Reqs |-> NoUpdResponse]
    /\ lateUpdate = [r \in Reqs |-> FALSE]
    /\ touched = [r \in Reqs |-> NoSite]
    /\ storeFailed = [r \in Reqs |-> FALSE]
    /\ repeat = [r \in Reqs |-> NoRepeat]

\* no request of Part III has arrived yet
CStart ==
    /\ creq = NoCRequest
    /\ cpc = "idle"
    /\ ccall = NoCall
    /\ cresp = NoCResponse
    /\ cres = NoResult
    /\ cbefore = store
    /\ fresh = 0
    /\ conns = 0

\* ---- PUT /api/updateSubtopicVideo, two requests at the same time ----
RaceNext ==
    \/ \E r \in Reqs : UpdRaceReceive(r)
    \/ \E r \in Reqs : UpdSpringBootAnswers(r)
    \/ \E r \in Reqs : UpdReadResolves(r)
    \/ \E r \in Reqs : UpdUpdateResolves(r)
    \/ \E r \in Reqs : UpdCallRejects(r)
    \/ Tick

RaceSpec == Init /\ [][RaceNext]_vars

\* updateUnitAI and save-full-lesson-adminstyle, one request after the other
LessonInit ==
    /\ OthersIdle
    /\ store \in LessonStores
    /\ cvariant \in {v \in CVariants : v.add = "nesting"}
    /\ CStart

LessonNext ==
    \/ CReceive({"updateUnitAI", "saveFullLesson"})
    \/ CConnectResolves
    \/ CSetResolves
    \/ CCallRejects

LessonSpec == LessonInit /\ [][LessonNext]_vars

\* addSubtopic, one request after the other
CreateInit ==
    /\ OthersIdle
    /\ store \in {st \in LessonStores : st["Physics"] = <<>>}
    /\ cvariant \in {v \in CVariants : v.unitAI = "shared"}
    /\ CStart

CreateNext ==
    \/ CReceive({"addSubtopic"})
    \/ CPushResolves
    \/ CInsertResolves
    \/ CCallRejects

CreateSpec == CreateInit /\ [][CreateNext]_vars

\* ---- GET /api/debug-subtopic/:id, one request after the other ----
LocInit ==
    /\ GenIdle
    /\ CIdle
    /\ LocIdle
    /\ SaveIdle
    /\ uvariant \in UpdVariants
    /\ store \in Stores
    \* the content variant runs on a database that holds "Content" only
    /\ uvariant = "content" => \A c \in Colls \ {"Content"} : store[c] = <<>>
    /\ now = 1
    /\ ureq = [r \in Reqs |-> NoUpdRequest]
    /\ upc = [r \in Reqs |-> "idle"]
    /\ upos = [r \in Reqs |-> 0]
    /\ result = [r \in Reqs |-> NoResult]
    /\ updateLocation = [r \in Reqs |-> "unknown"]
    /\ updatedCollection = [r \in Reqs |-> "unknown"]
    /\ uresp = [r \in Reqs |-> NoUpdResponse]
    /\ lateUpdate = [r \in Reqs |-> FALSE]
    /\ touched = [r \in Reqs |-> NoSite]
    /\ storeFailed = [r \in Reqs |-> FALSE]
    /\ repeat = [r \in Reqs |-> NoRepeat]

LocNext ==
    \/ LocReceive
    \/ LocFindResolves
    \/ LocReadResolves
    \/ LocSpringBootAnswers
    \/ LocCallRejects

LocSpec == LocInit /\ [][LocNext]_vars

\* ---- POST /save-full-data, one request after the other ----
SaveInit ==
    /\ GenIdle
    /\ UpdIdle
    /\ CIdle
    /\ LocIdle
    /\ svariant \in SaveVariants
    /\ db = FALSE
    /\ lessons = [c \in SaveColls |-> <<>>]
    /\ sreq = NoSaveRequest
    /\ spc = "idle"
    /\ scall = NoSaveCall
    /\ sresp = NoSaveResponse
    /\ generated = 0

SaveNext ==
    \/ SaveDbConnects
    \/ SaveReceive
    \/ SaveWriteResolves
    \/ SaveCallRejects

SaveSpec == SaveInit /\ [][SaveNext]_vars

\* ---- PUT /api/updateSubtopicVideo on a database in which the identifier
\* ---- occurs more than once ----
\* Every collection that is not empty holds two parent documents of two
\* units each; a unit is stored under both identity fields.  Both units of
\* the first document and at least one unit of the second are stored under
\* the identifier HexId.
CrowdedUnits ==
    {us \in [1..2 -> {Unit(Str(HexId), Str(HexId)), Unit(Str(PlainId), Str(PlainId))}] :
        \E k \in 1..2 : us[k].id = Str(HexId)}
CrowdedStores ==
    [Colls -> {<<>>} \cup
              {<<Doc(Oid(OtherHexId), [k \in 1..2 |-> Unit(Str(HexId), Str(HexId))]),
                 Doc(Oid(HexId), us)>> : us \in CrowdedUnits}]

CrowdedInit ==
    /\ GenIdle
    /\ CIdle
    /\ LocIdle
    /\ SaveIdle
    /\ uvariant \in UpdVariants
    /\ store \in CrowdedStores
    /\ uvariant = "content" => \A c \in Colls \ {"Content"} : store[c] = <<>>
    /\ now = 1
    /\ ureq = [r \in Reqs |-> NoUpdRequest]
    /\ upc = [r \in Reqs |-> "idle"]
    /\ upos = [r \in Reqs |-> 0]
    /\ result = [r \in Reqs |-> NoResult]
    /\ updateLocation = [r \in Reqs |-> "unknown"]
    /\ updatedCollection = [r \in Reqs |-> "unknown"]
    /\ uresp = [r \in Reqs |-> NoUpdResponse]
    /\ lateUpdate = [r \in Reqs |-> FALSE]
    /\ touched = [r \in Reqs |-> NoSite]
    /\ storeFailed = [r \in Reqs |-> FALSE]
    /\ repeat = [r \in Reqs |-> NoRepeat]

CrowdedSpec == CrowdedInit /\ [][Next]_vars

(***************************************************************************)
(* Part I: properties                                                      *)
(***************************************************************************)
InLoop == gpc \in {"polling", "sleeping"}
Responded == gpc = "responded"
TerminalTokens == {"done", "failed"}

\* C1: a request whose polls never report a terminal status ends with a
\* timeout error that carries no result URL: from every point of the polling
\* loop, either a terminal status is reported, a poll fails, or the request
\* is answered with the timeout error and without a URL.
C1_TimeoutWhenNeverTerminal ==
    InLoop ~>
        \/ doneAnswer.status \in TerminalTokens
        \/ /\ Responded
           /\ gresp.code = 500
           /\ gresp.url = Undefined
           /\ gresp.error \in {TimeoutError(gvariant), ProviderFailure(gvariant)}

\* C2: a poll that returns `failed` ends the request at once with the
\* provider error: the handler is never left waiting or polling with
\* status = "failed", and the answer is the generation-failed error.
C2_FailedIsFatal ==
    status = "failed" =>
        /\ Responded
        /\ gresp = GenError(500, "D-ID video generation failed")

\* C3: every accepted generation request is eventually answered.
C3_EveryRequestAnswered ==
    (gpc = "submitting") ~> Responded

\* C4: when the provider's answer is `done` and carries a result URL, the
\* response is a success whose URL is exactly that result URL.
C4_ResultUrlUnchanged ==
    (Responded /\ doneAnswer.status = "done") =>
        /\ gresp.code = 200
        /\ Truthy(doneAnswer.result_url) => gresp.url = doneAnswer.result_url

\* C4 witness: inProgress, inProgress, done with video1 (and another signed URL)
C4_Witness ==
    /\ Responded
    /\ polls = 3
    /\ doneAnswer.status = "done"
    /\ doneAnswer.result_url = "https://cdn/video1.mp4"
    /\ doneAnswer.result_url_signed = "https://cdn/video2.mp4"
    /\ gresp.url = "https://cdn/video1.mp4"

\* description missing, or shorter than 3 characters once trimmed
TooShort(b) == NoDescription(b) \/ Len(Trim(b.description)) < 3

\* C16: a request whose description is missing or shorter than 3 characters
\* after trimming is refused with the validation error: no job-creation
\* call is pending for it, and a refused request has sent no call and no poll.
C16_ShortDescriptionRefused ==
    /\ gpc = "submitting" => ~TooShort(greq)
    /\ (Responded /\ gresp.code = 400) => (submits = 0 /\ polls = 0)

\* C17: a job-creation call is sent only when a request arrives, once, and
\* the count of calls sent for a request does not change while the request
\* is handled, whatever its path (done, failed, timeout, poll error).
C17_SubmittedOnce ==
    [][ /\ gpc' = "submitting" => (gpc \in {"idle", "responded"} /\ submits' = 1)
        /\ gpc \notin {"idle", "responded"} => submits' = submits ]_vars

\* C17 witness: a request that ran out of its retry budget was answered
\* with the timeout error after one job-creation call.
C17_Witness ==
    /\ Responded
    /\ gvariant = "retry30"
    /\ gresp = GenError(500, TimeoutError(gvariant))
    /\ polls = 30
    /\ submits = 1

\* C18: a terminal status (done or failed) ends the polling: the handler is
\* never found polling or sleeping after a poll returned a terminal status,
\* so the poll that returns it is the last one.
C18_TerminalStops ==
    status \in TerminalTokens => Responded

\* C19: a status poll that fails ends the request: the handler answers 500
\* without a result URL and issues no further poll.
C19_PollFailureIsFatal ==
    [][ GenPollFails =>
            /\ gpc' = "responded"
            /\ gresp'.code = 500
            /\ gresp'.url = Undefined
            /\ polls' = polls ]_vars

\* C19 witness: the second poll failed after the first had answered
\* `started`; the request was answered 500 and two polls were issued.
C19_Witness ==
    /\ Responded
    /\ gvariant = "timed"
    /\ status = "started"
    /\ polls = 2
    /\ gresp = GenError(500, ProviderFailure(gvariant))

\* C33: a status token other than `done` and `failed` (an unknown token, or
\* none) is treated as in progress: the poll that returns it sends no
\* response and starts the wait, and when the wait ends the next poll is
\* issued while the loop's budget lasts; otherwise the answer is the timeout
\* error, never a success and never the provider failure.
C33_OtherTokensKeepPolling ==
    [][ /\ (GenPollReturns /\ status' \notin TerminalTokens)
           => /\ gpc' = "sleeping"
              /\ gresp' = NoGenResponse
              /\ videoUrl' = ""
        /\ (GenSleepEnds /\ status \notin TerminalTokens)
           => \/ /\ gpc' = "polling"
                 /\ polls' = Min(polls + 1, PollCap)
                 /\ gresp' = NoGenResponse
              \/ /\ ~LoopContinues(gvariant, status, elapsed', retries')
                 /\ gpc' = "responded"
                 /\ gresp' = GenError(500, TimeoutError(gvariant)) ]_vars

\* C33 witness: the second poll returned a token the handler does not
\* know, the wait ended and the third poll is under way.
C33_Witness ==
    /\ gvariant = "timed"
    /\ gpc = "polling"
    /\ polls = 3
    /\ status = "rejected"
    /\ gresp = NoGenResponse

\* C35: in the variants that count retries at most 60 status polls (30 in
\* the shorter one) are issued for a request, and a request whose polls
\* were all answered ends with "Video generation timed out" exactly when
\* every one of the 60 (30) polls returned a token other than `done`,
\* `failed` included; a poll that returns `done` ends it with a success.
C35_RetryBudget ==
    gvariant \in {"retry60", "retry30"}
    => /\ polls <= RetryLimit(gvariant)
       /\ retries <= RetryLimit(gvariant)
       /\ (Responded /\ polls > 0)
          => /\ gresp = GenError(500, "Video generation timed out")
                <=> (status # "done" /\ retries = RetryLimit(gvariant))
             /\ gresp.code = 200 <=> status = "done"
             /\ retries = RetryLimit(gvariant) => polls = RetryLimit(gvariant)

\* C35 witness: sixty polls were answered, the last of them with `failed`,
\* and the request ended with the timeout error.
C35_Witness ==
    /\ gvariant = "retry60"
    /\ Responded
    /\ polls = 60
    /\ status = "failed"
    /\ gresp = GenError(500, "Video generation timed out")

(***************************************************************************)
(* Part II: properties                                                     *)
(***************************************************************************)
Answered(r) == upc[r] = "responded"
\* the request was answered by the direct store search with a match
MatchedDirectly(r) == Answered(r) /\ uresp[r].code = 200 /\ touched[r] # NoSite
\* the field the variant's nested string strategy compares
NestedField(v) == IF v = "content" THEN "_id" ELSE "id"
\* documents of a collection that hold the identifier as a nested string
NestedHolders(docs, v, id) ==
    {i \in 1..Len(docs) : UnitIndex(docs[i], NestedField(v), Str(id)) # 0}
\* documents of a collection whose _id is the identifier as a native id
NativeHolders(docs, id) == {i \in 1..Len(docs) : docs[i]._id = Oid(id)}
\* the video URL stored at a site
SiteUrl(site) ==
    IF site.unit = 0 THEN store[site.coll][site.doc].aiVideoUrl
    ELSE store[site.coll][site.doc].units[site.unit].aiVideoUrl
SameRecord(a, b) == a.coll = b.coll /\ a.doc = b.doc /\ a.unit = b.unit

\* C5: when the identifier is held in the matched collection both by a
\* nested unit (string comparison) and by a top-level native _id, the nested
\* element is the one updated and reported.
C5_NestedWins ==
    \A r \in Reqs :
        ( /\ MatchedDirectly(r)
          /\ NestedHolders(store[touched[r].coll], uvariant, ureq[r].subtopicId) # {}
          /\ NativeHolders(store[touched[r].coll], ureq[r].subtopicId) # {} )
        => /\ touched[r].unit # 0
           /\ uresp[r].location \in {"nested_unit", "nested_unit_string"}

\* C6: once an updateOne has reported a match, the request issues no further
\* updateOne and awaits nothing more: it is answered.
C6_NoUpdateAfterMatch ==
    \A r \in Reqs :
        /\ ~lateUpdate[r]
        /\ Matched(result[r]) => Answered(r)

\* C6 witness: the match was found in the first collection while the second
\* collection holds the identifier too and was left alone.
C6_Witness ==
    /\ uvariant = "allcolls"
    /\ MatchedDirectly(1)
    /\ touched[1].coll = "Content"
    /\ NestedHolders(store["Physics"], uvariant, ureq[1].subtopicId) # {}
    /\ \A i \in 1..Len(store["Physics"]) :
           \A k \in 1..Len(store["Physics"][i].units) :
               store["Physics"][i].units[k].aiVideoUrl = ""

\* C7 (as claimed): the second of two consecutive identical calls that match
\* reports modifiedCount 0 and leaves the record as the first call left it.
C7_SecondCallChangesNothing ==
    \A r \in Reqs :
        (MatchedDirectly(r) /\ repeat[r].is /\ SameRecord(touched[r], repeat[r].site))
        => /\ uresp[r].updated = 0
           /\ touched[r].t = repeat[r].site.t

\* C7 (amended): two consecutive identical calls that match the same record
\* each leave its video URL equal to the supplied URL; the second rewrites
\* the updated-timestamp, so it reports modifiedCount 0 exactly when the
\* clock has not advanced since the first call, and 1 otherwise.
C7_RepeatRewritesTimestamp ==
    \A r \in Reqs :
        (MatchedDirectly(r) /\ repeat[r].is /\ SameRecord(touched[r], repeat[r].site))
        => /\ SiteUrl(touched[r]) = ureq[r].aiVideoUrl
           /\ uresp[r].updated = 0 <=> touched[r].t = repeat[r].site.t
           /\ uresp[r].updated \in {0, 1}

\* C7 witness: the repeated call ran after the clock advanced and modified
\* the record again.
C7_Witness ==
    /\ MatchedDirectly(1)
    /\ repeat[1].is
    /\ SameRecord(touched[1], repeat[1].site)
    /\ touched[1].t > repeat[1].site.t
    /\ uresp[1].updated = 1

\* C8: a store call that fails during the search ends the request with the
\* store error (500): the search does not go on and the request is not
\* answered as not found or as matched.
C8_StoreFailureIsFatal ==
    \A r \in Reqs :
        storeFailed[r] => Answered(r) /\ uresp[r] = UpdFailure

\* C9: with a hint, a record that the hinted collection does not hold but
\* another collection does is still matched and updated (there).
C9_HintThenEverywhere ==
    \A r \in Reqs :
        LET b == ureq[r]
            Holds(c) ==
                \/ NestedHolders(store[c], uvariant, b.subtopicId) # {}
                \/ NativeHolders(store[c], b.subtopicId) # {}
        IN  ( /\ Answered(r)
              /\ uresp[r].code \in {200, 404}
              /\ uresp[r].location # "spring_boot_api"
              /\ ~storeFailed[r]
              /\ b.subjectName # NoHint
              /\ ~Holds(b.subjectName)
              /\ \E c \in Colls \ {b.subjectName} : Holds(c) )
            => /\ uresp[r].code = 200
               /\ touched[r].coll # b.subjectName

\* C10: a not-found answer carries the searched identifier and the list of
\* the collections examined, and the request has written nothing.
C10_NotFoundCarriesDiagnostics ==
    \A r \in Reqs :
        (Answered(r) /\ uresp[r].code = 404)
        => /\ uresp[r].subtopicId = ureq[r].subtopicId
           /\ uresp[r].hasSearched
           /\ touched[r] = NoSite

\* C12: an update that matched a record and changed nothing is answered as
\* a success that reports modifiedCount 0 and the location matched, never as
\* an error.
C12_UnchangedIsNotAnError ==
    \A r \in Reqs :
        (Answered(r) /\ Matched(result[r]) /\ result[r].modifiedCount = 0)
        => /\ uresp[r].code = 200
           /\ uresp[r].updated = 0
           /\ uresp[r].location = updateLocation[r]

\* C12 witness: a call repeated within the same clock value matched the
\* record again, changed nothing and was answered 200.
C12_Witness ==
    /\ MatchedDirectly(1)
    /\ repeat[1].is
    /\ result[1] = [matchedCount |-> 1, modifiedCount |-> 0]
    /\ uresp[1].updated = 0

\* the updated-timestamp written together with the video URL of a site
SiteStamp(site) ==
    IF site.unit = 0 \/ uvariant = "content"
    THEN store[site.coll][site.doc].updatedAt
    ELSE store[site.coll][site.doc].units[site.unit].updatedAt
\* every place of the database that holds the URL
Holders(url) ==
    {<<c, i, k>> \in Colls \X (1..MaxDocs) \X (0..MaxUnits) :
        /\ i <= Len(store[c]) /\ k <= Len(store[c][i].units)
        /\ url = IF k = 0 THEN store[c][i].aiVideoUrl
                 ELSE store[c][i].units[k].aiVideoUrl}
\* both requests were answered by the store search, no call having failed
BothSearched ==
    \A r \in Reqs :
        /\ Answered(r)
        /\ uresp[r].code \in {200, 404}
        /\ uresp[r].location # "spring_boot_api"
        /\ ~storeFailed[r]

\* C20: two requests that attach different URLs to the same identifier at
\* the same time both match when one does, and they match the same record;
\* once both are answered the record holds the URL and the timestamp written
\* by one and the same request, and no other place holds either URL.
C20_LastWriteWins ==
    BothSearched
    => /\ uresp[1].code = uresp[2].code
       /\ MatchedDirectly(1) =>
            /\ MatchedDirectly(2)
            /\ SameRecord(touched[1], touched[2])
            /\ \E w \in Reqs :
                   /\ SiteUrl(touched[1]) = ureq[w].aiVideoUrl
                   /\ SiteStamp(touched[1]) = touched[w].t
                   /\ \A o \in Reqs : touched[o].t <= touched[w].t
            /\ \A r \in Reqs :
                   Holders(ureq[r].aiVideoUrl)
                       \subseteq {<<touched[1].coll, touched[1].doc, touched[1].unit>>}

\* C20 witness: the request that arrived with the first URL wrote after the
\* other one, and the record holds the first URL.
C20_Witness ==
    /\ BothSearched
    /\ MatchedDirectly(1) /\ MatchedDirectly(2)
    /\ ureq[1].aiVideoUrl # ureq[2].aiVideoUrl
    /\ touched[1].t > touched[2].t
    /\ SiteUrl(touched[1]) = ureq[1].aiVideoUrl
    /\ Holders(ureq[2].aiVideoUrl) = {}

\* request r awaits the nested update of its hinted collection while an
\* element of that collection holds the identifier in its `id` field
HintedNestedMatch(r) ==
    /\ ureq[r].subjectName # NoHint
    /\ Awaiting(r, {"nested"})
    /\ Awaited(r) = NestedId(ureq[r].subjectName)
    /\ NestedHolders(store[ureq[r].subjectName], uvariant, ureq[r].subtopicId) # {}
\* the element that update is about to write
HintedUnit(r) ==
    LET docs == store[ureq[r].subjectName]
        d == First(NestedHolders(docs, uvariant, ureq[r].subtopicId))
    IN  docs[d].units[UnitIndex(docs[d], "id", Str(ureq[r].subtopicId))]
\* the answer names the nested location in the hinted collection, and the
\* element written holds the supplied URL
ReportsHintedNested(r) ==
    /\ Answered(r)
    /\ uresp[r].code = 200
    /\ uresp[r].location = "nested_unit"
    /\ uresp[r].collection = ureq[r].subjectName
    /\ touched[r].coll = ureq[r].subjectName
    /\ touched[r].unit # 0
    /\ SiteUrl(touched[r]) = ureq[r].aiVideoUrl

SearchOrder(v, hint) ==
    CASE v = "springboot" -> (IF hint # NoHint THEN <<hint>> ELSE <<>>) \o CollNames
      [] v = "allcolls" -> CollNames
      [] v = "content" -> <<"Content">>
      [] OTHER -> IF hint # NoHint THEN <<hint>> ELSE CollNames
Strategies(v, c) ==
    IF v = "content"
    THEN <<MainOid(c), NestedUidString(c), NestedUidOid(c)>>
    ELSE <<NestedId(c), MainOid(c)>>
Hits(v, st, id, c) ==
    {k \in 1..Len(Strategies(v, c)) :
        /\ ~(Strategies(v, c)[k].oid /\ ~ValidObjectId(id))
        /\ \E i \in 1..Len(st[c]) : DocMatches(st[c][i], Strategies(v, c)[k], id)}
NoOutcome == [found |-> FALSE, location |-> "", coll |-> "", doc |-> 0, unit |-> 0]
Outcome(v, st, id, hint) ==
    LET order == SearchOrder(v, hint)
        j == First({n \in 1..Len(order) : Hits(v, st, id, order[n]) # {}})
    IN  IF j = 0 THEN NoOutcome
        ELSE LET c == order[j]
                 step == Strategies(v, c)[First(Hits(v, st, id, c))]
                 d == First({i \in 1..Len(st[c]) : DocMatches(st[c][i], step, id)})
             IN  [found |-> TRUE, location |-> step.location, coll |-> c, doc |-> d,
                  unit |-> IF step.kind = "main" THEN 0
                           ELSE UnitIndex(st[c][d], step.field, FilterValue(step, id))]
\* the request was answered by the store search, none of whose calls failed
SearchedCleanly(r) ==
    /\ Answered(r)
    /\ ~storeFailed[r]
    /\ uresp[r].code \in {200, 404}
    /\ uresp[r].location # "spring_boot_api"

LocationKind(loc) ==
    CASE loc \in {"nested_in_units", "nested_in_units_objectid", "nested_unit",
                  "nested_unit_string", "nested_unit_objectid"} -> "nested"
      [] loc = "main_document" -> "main"
      [] OTHER -> loc

\* the request carries an identifier that new ObjectId() rejects
NotNativeId(r) ==
    /\ upc[r] # "idle"
    /\ Truthy(ureq[r].subtopicId) /\ Truthy(ureq[r].aiVideoUrl)
    /\ ~ValidObjectId(ureq[r].subtopicId)
    /\ ~ListThrows(uvariant, ureq[r])
\* collections of the search that hold the identifier as a nested string
StringHolders(r) ==
    {n \in 1..Len(SearchOrder(uvariant, ureq[r].subjectName)) :
        NestedHolders(store[SearchOrder(uvariant, ureq[r].subjectName)[n]],
                      uvariant, ureq[r].subtopicId) # {}}

\* C29: for an identifier that is not a native object id no update by
\* native id is awaited and the request does not fail for it; the string
\* strategies are tried, so a nested element stored under that string in a
\* searched collection is matched and written.
C29_BadNativeIdFallsThrough ==
    \A r \in Reqs :
        NotNativeId(r)
        => /\ upc[r] = "awaiting" => ~Awaited(r).oid
           /\ (Answered(r) /\ ~storeFailed[r]) => uresp[r].code \in {200, 404}
           /\ (SearchedCleanly(r) /\ StringHolders(r) # {})
              => /\ uresp[r].code = 200
                 /\ touched[r].unit # 0
                 /\ LocationKind(uresp[r].location) = "nested"

\* C29 witness: the top-level update of the hinted collection was passed
\* over and the nested string update of a later collection matched.
C29_Witness ==
    /\ NotNativeId(1)
    /\ uvariant = "springboot"
    /\ ureq[1].subjectName = "Physics"
    /\ SearchedCleanly(1)
    /\ uresp[1].code = 200
    /\ touched[1].coll = "Content"
    /\ touched[1].unit # 0

\* documents of a collection with a nested element whose `_id` or `id` is
\* the identifier as a string
EitherFieldHolders(docs, id) ==
    {i \in 1..Len(docs) :
        UnitIndex(docs[i], "_id", Str(id)) # 0 \/ UnitIndex(docs[i], "id", Str(id)) # 0}

\* C30: the nested strategy compares both identity fields, so a nested
\* element that holds the identifier in `_id` or in `id`, in a collection
\* the search visits, is matched and written.
C30_BothFieldNamesTried ==
    \A r \in Reqs :
        ( /\ SearchedCleanly(r)
          /\ \E n \in 1..Len(SearchOrder(uvariant, ureq[r].subjectName)) :
                EitherFieldHolders(
                    store[SearchOrder(uvariant, ureq[r].subjectName)[n]],
                    ureq[r].subtopicId) # {} )
        => /\ uresp[r].code = 200
           /\ touched[r] # NoSite

\* collections of the search that hold a top-level document whose `_id` is
\* the identifier as a plain string
StringTopHolders(r) ==
    {n \in 1..Len(SearchOrder(uvariant, ureq[r].subjectName)) :
        \E i \in 1..Len(store[SearchOrder(uvariant, ureq[r].subjectName)[n]]) :
            store[SearchOrder(uvariant, ureq[r].subjectName)[n]][i]._id
                = Str(ureq[r].subtopicId)}

\* C31: a top-level document of a searched collection whose `_id` is the
\* identifier stored as a plain string is matched and written, with the
\* top-level location, when no earlier strategy of the search matches.
C31_StringTopLevelMatched ==
    \A r \in Reqs :
        ( /\ SearchedCleanly(r)
          /\ StringTopHolders(r) # {}
          /\ ~Outcome(uvariant, store, ureq[r].subtopicId, ureq[r].subjectName).found )
        => /\ uresp[r].code = 200
           /\ uresp[r].location = "main_document"

\* the documents in which two databases of the same shape differ, and the
\* units in which two documents differ
ChangedDocs(s, t) ==
    UNION {{<<c, i>> : i \in {j \in 1..Len(s[c]) : s[c][j] # t[c][j]}} : c \in Colls}
ChangedElements(d, e) == {k \in 1..Len(d.units) : d.units[k] # e.units[k]}
SameShape(s, t) ==
    \A c \in Colls :
        /\ Len(s[c]) = Len(t[c])
        /\ \A i \in 1..Len(s[c]) :
            /\ s[c][i]._id = t[c][i]._id
            /\ Len(s[c][i].units) = Len(t[c][i].units)
\* the nested elements and the documents that hold a video URL
ElementsWith(url) ==
    UNION {UNION {{<<c, i, k>> : k \in {n \in 1..Len(store[c][i].units) :
                                            store[c][i].units[n].aiVideoUrl = url}} :
                  i \in 1..Len(store[c])} : c \in Colls}
DocsWith(url) ==
    UNION {{<<c, i>> : i \in {j \in 1..Len(store[c]) : store[c][j].aiVideoUrl = url}} :
           c \in Colls}

\* C34: one call changes at most one document and at most one nested
\* element of the whole database: the database changes only in the step in
\* which an updateOne of the call resolves, that step changes one document
\* and at most one of its units, and the call is answered in that step, so
\* it changes nothing afterwards.
C34_OneRecordPerCall ==
    [][ store' # store
        => /\ SameShape(store, store')
           /\ Cardinality(ChangedDocs(store, store')) = 1
           /\ \A p \in ChangedDocs(store, store') :
                Cardinality(ChangedElements(store[p[1]][p[2]], store'[p[1]][p[2]])) <= 1
           /\ \E r \in Reqs : UpdUpdateResolves(r) /\ upc'[r] = "responded" ]_vars

\* C34 witness: every document of both collections holds the identifier,
\* one of them in two units; the call was answered and its URL is held by
\* one unit of the database and by no document.
C34_Witness ==
    /\ uvariant = "allcolls"
    /\ MatchedDirectly(1)
    /\ \A c \in Colls :
        /\ Len(store[c]) = 2
        /\ \A i \in 1..2 : \A k \in 1..2 : store[c][i].units[k].id = Str(ureq[1].subtopicId)
    /\ Cardinality(ElementsWith(ureq[1].aiVideoUrl)) = 1
    /\ DocsWith(ureq[1].aiVideoUrl) = {}

\* C36: in the Spring Boot variant an answer of the Spring Boot call with
\* `updated` truthy or status "ok" is answered 200 with location
\* spring_boot_api in the same step, with the database unchanged and no
\* update awaited; an answer with neither is not reported as
\* spring_boot_api; a direct update resolves only for a request that went
\* past the Spring Boot call without a response, and a request answered
\* with spring_boot_api has written nothing itself.
C36_OnePathPerRequest ==
    [][ \A r \in Reqs :
          /\ \A data \in SpringAnswers :
                UpdSpringBootReturns(r, data)
                => IF data.updated # 0 \/ data.status = "ok"
                   THEN /\ upc'[r] = "responded"
                        /\ uresp'[r].code = 200
                        /\ uresp'[r].location = "spring_boot_api"
                        /\ store' = store
                   ELSE /\ uresp'[r].location # "spring_boot_api"
                        /\ upc'[r] = "awaiting" => Awaited(r)'.kind # "springboot"
          /\ (UpdUpdateResolves(r) /\ uvariant = "springboot")
                => /\ upos[r] > 1
                   /\ uresp[r] = NoUpdResponse
          /\ uresp'[r].location = "spring_boot_api"
                => /\ upc'[r] = "responded"
                   /\ touched'[r] = NoSite
                   /\ result'[r] = NoResult ]_vars

\* C36 witness: the request was answered with spring_boot_api while the
\* database holds the record, which the handler left unwritten.
C36_Witness ==
    /\ uvariant = "springboot"
    /\ Answered(1)
    /\ uresp[1].location = "spring_boot_api"
    /\ Outcome(uvariant, store, ureq[1].subtopicId, ureq[1].subjectName).found
    /\ ElementsWith(ureq[1].aiVideoUrl) = {}
    /\ DocsWith(ureq[1].aiVideoUrl) = {}

(***************************************************************************)
(* Part III: properties                                                    *)
(***************************************************************************)
CAnswered == cpc = "responded"
CSucceeded == CAnswered /\ cresp.code = 200

\* C11: an update whose identifier matches no record (the store reports
\* matchedCount 0) is answered as not found, never as a success.
C11_UnmatchedIsNotFound ==
    (CAnswered /\ creq.op \in {"updateUnitAI", "saveFullLesson"} /\ cres.matchedCount = 0)
    => /\ cresp.code = 404
       /\ cresp.status # "ok"

\* a unit without the fields an attach may write: the video URL, the
\* updated-timestamp and, when the caller supplied test data, the test data
Framed(u, q) ==
    [u EXCEPT !.aiVideoUrl = "", !.videoUrl = "", !.updatedAt = 0,
              !.aiTestData = IF q.tests # Undefined THEN "" ELSE @]
FramedDoc(doc, q) ==
    [doc EXCEPT !.aiVideoUrl = "", !.updatedAt = 0,
                !.units = [k \in 1..Len(doc.units) |-> Framed(doc.units[k], q)]]
\* the nested elements that differ between two databases of the same shape
ChangedUnits(new, old) ==
    {<<c, i, k>> \in Colls \X (1..MaxDocs) \X (1..MaxLessonUnits) :
        /\ i <= Len(new[c]) /\ k <= Len(new[c][i].units)
        /\ new[c][i].units[k] # old[c][i].units[k]}

\* C13: updateUnitAI changes nothing but the video URL, the timestamp and
\* the supplied test data of one nested element: test data stored before is
\* kept when the caller supplies none, and every other element, document
\* and field is as it was when the request arrived.
C13_OnlyVideoFieldsChange ==
    (CSucceeded /\ creq.op = "updateUnitAI")
    => /\ \A c \in Colls :
            /\ Len(store[c]) = Len(cbefore[c])
            /\ \A i \in 1..Len(store[c]) :
                   FramedDoc(store[c][i], creq) = FramedDoc(cbefore[c][i], creq)
       /\ Cardinality(ChangedUnits(store, cbefore)) <= 1

\* addSubtopic stored a record: a document was inserted or an element pushed
Created ==
    /\ CSucceeded
    /\ creq.op = "addSubtopic"
    /\ ccall.kind = "insert" \/ (ccall.kind = "push" /\ cres.modifiedCount > 0)
\* the identifier is matched in "Content" by a strategy of the update handler
Reaches(docs, id) ==
    \E p \in 1..3 :
        LET step == Plan("content", NoHint)[p]
        IN  /\ ~(step.oid /\ ~ValidObjectId(id))
            /\ \E i \in 1..Len(docs) : DocMatches(docs[i], step, id)

\* C14: the identifier returned by a successful addSubtopic is the identity
\* under which the record was stored, so an update with the returned
\* identifier matches a record.
C14_ReturnedIdIsStoredId ==
    Created
    => /\ cresp.insertedId.v = ccall.newId.v
       /\ Reaches(store["Content"], cresp.insertedId.v)

\* C15: with a parent identifier addSubtopic creates no top-level document
\* and appends one element to the parent's units; without one it appends
\* exactly one top-level document and leaves the existing ones as they were.
C15_ParentDecidesPlacement ==
    (CSucceeded /\ creq.op = "addSubtopic")
    => IF Truthy(creq.parentId)
       THEN /\ \A c \in Colls : Len(store[c]) = Len(cbefore[c])
            /\ \A i \in 1..Len(cbefore["Content"]) :
                   cbefore["Content"][i]._id = Oid(creq.parentId)
                   => /\ Len(store["Content"][i].units)
                            = Len(cbefore["Content"][i].units) + 1
                      /\ SubSeq(store["Content"][i].units, 1,
                                Len(cbefore["Content"][i].units))
                            = cbefore["Content"][i].units
       ELSE /\ Len(store["Content"]) = Len(cbefore["Content"]) + 1
            /\ SubSeq(store["Content"], 1, Len(cbefore["Content"])) = cbefore["Content"]
            /\ \A c \in Colls \ {"Content"} : store[c] = cbefore[c]

\* C21: every request uses the connection made at start: no handler is
\* waiting for a connection of its own and none holds one.
C21_OneSharedConnection ==
    /\ cpc # "connecting"
    /\ conns = 0

\* C24: an updateUnitAI request without an identifier is refused with the
\* validation error at once: no connection is requested, no store call is
\* issued and the database is as it was.
C24_MissingIdRefused ==
    (creq.op = "updateUnitAI" /\ ~Truthy(creq.id) /\ cpc # "idle")
    => /\ CAnswered
       /\ cresp = CRefused
       /\ ccall = NoCall
       /\ store = cbefore

\* C26: an addSubtopic request without unitName is refused with the
\* validation error at once: no store call is issued and the database is as
\* it was.
C26_NoUnitNameRefused ==
    (creq.op = "addSubtopic" /\ ~Truthy(creq.unitName) /\ cpc # "idle")
    => /\ CAnswered
       /\ cresp = CRefused
       /\ ccall = NoCall
       /\ store = cbefore

\* C26 witness: a request naming an existing parent, without unitName, was
\* refused.
C26_Witness ==
    /\ creq.op = "addSubtopic"
    /\ ~Truthy(creq.unitName)
    /\ CAnswered
    /\ cresp = CRefused
    /\ \E i \in 1..Len(store["Content"]) : store["Content"][i]._id = Oid(creq.parentId)

\* the request names a parent by a native id under which the collection
\* held no document when the request arrived
ParentMissing ==
    /\ creq.op = "addSubtopic"
    /\ Truthy(creq.unitName)
    /\ Truthy(creq.parentId) /\ ValidObjectId(creq.parentId)
    /\ \A i \in 1..Len(cbefore["Content"]) :
            cbefore["Content"][i]._id # Oid(creq.parentId)

C40_ConnectionsClosed ==
    cpc \in {"idle", "responded"} => conns = 0

(***************************************************************************)
(* Part IV: properties                                                     *)
(***************************************************************************)
LocAnswered == lpc = "responded"
\* the answer was produced by the handler's own search of the store
LocSearched == LocAnswered /\ lresp.code = 200 /\ lresp # LocForwarded

\* the searches a variant makes in a collection, and the collections of
\* the database it runs on
StrategySteps(v) ==
    IF v = "content"
    THEN {MainOid("Content"), LocNestedUidString("Content"),
          LocNestedUidOid("Content"), StringSearch("Content")}
    ELSE UNION {{LocInCollections(v, <<c>>)[i] :
                    i \in 1..Len(LocInCollections(v, <<c>>))} : c \in Colls}
\* new ObjectId(id) does not throw for the step
Applicable(step, id) == ~(step.oid /\ ~ValidObjectId(id))
\* the searches under which a stored document matches the identifier
StoreMatches(v, id) ==
    {st \in StrategySteps(v) : Applicable(st, id) /\ FindOne(store[st.coll], st, id)}

C28_LocateAgreesWithAttach ==
    (LocSearched /\ ~lfailed)
    => LET o == Outcome(uvariant, store, lreq.id, lreq.subjectName)
       IN  /\ lresp.found <=> o.found
           /\ lresp.found
              => /\ LocationKind(lresp.location) = LocationKind(o.location)
                 /\ uvariant # "content" => lresp.collection = o.coll

(***************************************************************************)
(* Part V: properties                                                      *)
(***************************************************************************)
\* the handler has run to its end
SaveEnded == spc \in {"responded", "threw"}
\* the JSON answers the handler sends itself
SaveAnswers == {SaveOk, SaveMissing, SaveNotConnected, SaveFailure}

\* C25: a request whose handling has ended was answered by the handler with
\* its success answer or one of its structured error answers; no failure
\* escapes the handler.
C25_AnsweredAtBoundary ==
    SaveEnded => (spc = "responded" /\ sresp \in SaveAnswers)

\* the handler works on the handle the startup code sets once connected
\* (`db` or `collection`); the fixed-collection variant asks the client for
\* the database in the handler itself
UsesStartupHandle(v) == v \in {"lessons", "upsert", "general"}

StoredUnder(docs, id) == {i \in 1..Len(docs) : docs[i]._id = id}
\* subtopicId && ObjectId.isValid(subtopicId)
HasNativeId(b) == Truthy(b.subtopicId) /\ ValidObjectId(b.subtopicId)

\* C38: in the variants that upsert, a write for a valid subtopicId leaves
\* exactly one document under that _id in the collection written, holding
\* the fields of that call, and adds a document only when none was stored
\* under the _id; a write without a valid subtopicId adds one document under
\* an _id no stored document has.  Every other document is left as it was.
C38_UpsertPerIdentifier ==
    [][ (SaveWriteResolves /\ svariant \in {"upsert", "general"})
        => LET c == scall.coll
               id == IF HasNativeId(sreq) THEN Oid(sreq.subtopicId) ELSE scall.id
               old == StoredUnder(lessons[c], id)
           IN  /\ Cardinality(StoredUnder(lessons'[c], id)) = 1
               /\ \A i \in StoredUnder(lessons'[c], id) :
                    lessons'[c][i] = SavedDoc(svariant, id, sreq, now)
               /\ Cardinality(old) <= 1
               /\ Len(lessons'[c]) = Len(lessons[c]) + (IF old = {} THEN 1 ELSE 0)
               /\ ~HasNativeId(sreq)
                    => \A c2 \in SaveColls : StoredUnder(lessons[c2], id) = {}
               /\ \A i \in 1..Len(lessons[c]) :
                    i \notin old => lessons'[c][i] = lessons[c][i]
               /\ \A c2 \in SaveColls \ {c} : lessons'[c2] = lessons[c2] ]_vars

\* C38 witness: the collection holds one document under the identifier,
\* with the fields of the second version of the lesson, next to a document
\* saved without an identifier.
C38_Witness ==
    /\ svariant = "upsert"
    /\ spc = "responded"
    /\ sresp = SaveOk
    /\ sreq.subtopicId = HexId
    /\ sreq.description = "second"
    /\ LET docs == lessons[scall.coll]
       IN  /\ Len(docs) = 2
           /\ docs[2] = SavedDoc(svariant, Oid(HexId), sreq, now)
           /\ docs[1]._id # Oid(HexId)

====
